---- MODULE Spec2Model ----
(***************************************************************************)
(* Model of the procedural STL generator of Imagen-3D:                     *)
(*   src/src/backend/app/services/stl.py   (normal math, ASCII serializer) *)
(*   src/src/app/services/generator.py     (cube, cylinder, sphere, box)   *)
(*                                                                         *)
(* Numbers.  The code computes in IEEE doubles and prints with "%.6f".     *)
(* Here a number is an integer count of 10^-6 units (fixed point with the  *)
(* six decimals the file format keeps), every product and quotient is      *)
(* rounded to that grid, and all intermediate values stay below 2^31.      *)
(* Vertices are triples <<x, y, z>>, triangles are triples of vertices,    *)
(* the STL text is a sequence of lines, a line is its indentation, its     *)
(* words and the numbers printed after them, and a printed number is the   *)
(* record built by Fmt6.                                                   *)
(***************************************************************************)
EXTENDS Integers, Sequences, FiniteSets, TLC

\* digits after the decimal point of every printed number ("{x:.6f}")
FracDigits == 6

\* one unit (1.0) on the fixed-point grid
Scale == 10 ^ FracDigits
HalfScale == 10 ^ (FracDigits \div 2)

\* np.pi on the fixed-point grid
PI == 3141593

(***************************************************************************)
(* Fixed-point arithmetic                                                  *)
(***************************************************************************)
Abs(a) == IF a < 0 THEN -a ELSE a
Sgn(a) == IF a < 0 THEN -1 ELSE 1
Max2(a, b) == IF a >= b THEN a ELSE b
Min2(a, b) == IF a <= b THEN a ELSE b

\* round(a / d) for an integer divisor d > 0
RDiv(a, d) == Sgn(a) * ((Abs(a) + d \div 2) \div d)

\* round(a * b / Scale) for a, b >= 0, computed in halves so that no
\* intermediate value leaves 32 bits
FMulAbs(a, b) ==
    LET a1 == a \div HalfScale
        a0 == a % HalfScale
        b1 == b \div HalfScale
        b0 == b % HalfScale
    IN  a1 * b1
        + ((a1 * b0 + a0 * b1) + (a0 * b0 + Scale \div 2) \div HalfScale)
          \div HalfScale

\* the product x * y of two numbers
FMul(a, b) == Sgn(a) * Sgn(b) * FMulAbs(Abs(a), Abs(b))

\* floor(sqrt(n)) for an integer n >= 0, by Newton iteration from above
RECURSIVE ISqrtFrom(_, _)
ISqrtFrom(n, y) ==
    LET z == (y + n \div y) \div 2
    IN  IF z >= y THEN y ELSE ISqrtFrom(n, z)

ISqrt(n) == IF n = 0 THEN 0 ELSE ISqrtFrom(n, n)

\* alternating power series  term - term*x2/(k(k+1)) + ...
RECURSIVE Series(_, _, _, _)
Series(x2, term, k, acc) ==
    IF term = 0 THEN acc
    ELSE Series(x2, -RDiv(FMul(term, x2), k * (k + 1)), k + 2, acc + term)

SinQ(x) == Series(FMul(x, x), x, 2, 0)
CosQ(x) == Series(FMul(x, x), Scale, 1, 0)

\* sine and cosine on [0, pi/2], reduced to [0, pi/4]
SinH(y) == IF 2 * y <= PI \div 2 THEN SinQ(y) ELSE CosQ(PI \div 2 - y)
CosH(y) == IF 2 * y <= PI \div 2 THEN CosQ(y) ELSE SinQ(PI \div 2 - y)

\* np.sin
Sin(x) ==
    LET y == x % (2 * PI)
    IN  IF y <= PI \div 2 THEN SinH(y)
        ELSE IF y <= PI THEN SinH(Min2(PI - y, PI \div 2))
        ELSE IF y <= PI + PI \div 2 THEN -SinH(Min2(y - PI, PI \div 2))
        ELSE -SinH(Min2(2 * PI - y, PI \div 2))

\* np.cos
Cos(x) ==
    LET y == x % (2 * PI)
    IN  IF y <= PI \div 2 THEN CosH(y)
        ELSE IF y <= PI THEN -CosH(Min2(PI - y, PI \div 2))
        ELSE IF y <= PI + PI \div 2 THEN -CosH(Min2(y - PI, PI \div 2))
        ELSE CosH(Min2(2 * PI - y, PI \div 2))

(***************************************************************************)
(* stl.py                                                                  *)
(***************************************************************************)
VSub(a, b) == <<a[1] - b[1], a[2] - b[2], a[3] - b[3]>>

\* np.cross
Cross(a, b) ==
    << FMul(a[2], b[3]) - FMul(a[3], b[2]),
       FMul(a[3], b[1]) - FMul(a[1], b[3]),
       FMul(a[1], b[2]) - FMul(a[2], b[1]) >>

\* largest magnitude a rescaled component may have: three squares of it fit
\* in 32 bits
MaxComponent == ISqrt(2147483647 \div 3)

MaxAbs(n) == Max2(Abs(n[1]), Max2(Abs(n[2]), Abs(n[3])))

\* a vector parallel to n # 0 whose largest component has four or five
\* significant digits (doubles are scale free; the grid is not)
Rescaled(n) ==
    LET m == MaxAbs(n)
        d == m \div MaxComponent + 1
        f == MaxComponent \div m
    IN  IF m > MaxComponent
        THEN <<RDiv(n[1], d), RDiv(n[2], d), RDiv(n[3], d)>>
        ELSE <<n[1] * f, n[2] * f, n[3] * f>>

\* integer length of a rescaled vector
Length(u) == ISqrt(u[1] * u[1] + u[2] * u[2] + u[3] * u[3])

\* round(a * Scale / b) for |a| <= b < 2^16, three decimals at a time
Ratio(a, b) ==
    LET hi == (Abs(a) * HalfScale) \div b
        r  == (Abs(a) * HalfScale) % b
    IN  Sgn(a) * (hi * HalfScale + (r * HalfScale + b \div 2) \div b)

\* np.linalg.norm: sqrt(x^2 + y^2 + z^2); positive exactly when n # 0
Norm(n) ==
    LET m == MaxAbs(n)
        u == Rescaled(n)
        um == MaxAbs(u)
        len == Length(u)
    IN  IF m = 0 THEN 0
        ELSE (m \div um) * len + ((m % um) * len) \div um

\* normal / norm
Normalized(n) ==
    LET u == Rescaled(n)
        len == Length(u)
    IN  <<Ratio(u[1], len), Ratio(u[2], len), Ratio(u[3], len)>>

\* calculate_normal returning the cross product as it is
calculate_normal_raw(v1, v2, v3) == Cross(VSub(v2, v1), VSub(v3, v1))

calculate_normal(v1, v2, v3) ==
    LET edge1 == VSub(v2, v1)
        edge2 == VSub(v3, v1)
        normal == Cross(edge1, edge2)
        norm == Norm(normal)
    IN  IF norm > 0 THEN Normalized(normal) ELSE normal

\* materialise a sequence given as a function over 1..n (Python's list)
List(f) == f \o <<>>

\* the k decimal digits of n < 10^k, most significant first, zero-padded
Digits(n, k) == List([i \in 1..k |-> (n \div (10 ^ (k - i))) % 10])

\* Fmt6 as str(round(x, 6)) would print: no trailing zeros
FmtShortest(x) ==
    LET d == Digits(Abs(x) % Scale, FracDigits)
        last == CHOOSE k \in 1..FracDigits :
                    /\ k = 1 \/ d[k] # 0
                    /\ \A j \in (k + 1)..FracDigits : d[j] = 0
    IN  [sign |-> IF x < 0 THEN "-" ELSE "",
         int  |-> Abs(x) \div Scale,
         frac |-> SubSeq(d, 1, last)]

\* f"{x:.6f}": sign, integer part, and the digits after the decimal point
Fmt6(x) ==
    [sign |-> IF x < 0 THEN "-" ELSE "",
     int  |-> Abs(x) \div Scale,
     frac |-> Digits(Abs(x) % Scale, FracDigits)]

\* one line of text: indent spaces, the words, then the printed numbers
Line(indent, words, numbers) ==
    [indent |-> indent, words |-> words, numbers |-> numbers]

create_stl_header == Line(0, <<"solid", "modelo3d">>, <<>>)
create_stl_footer == Line(0, <<"endsolid", "modelo3d">>, <<>>)

\* write_triangle_to_buffer closing the facet with a second "endloop"
write_triangle_unclosed(v1, v2, v3) ==
    LET normal == calculate_normal(v1, v2, v3)
    IN  << Line(2, <<"facet", "normal">>,
                <<Fmt6(normal[1]), Fmt6(normal[2]), Fmt6(normal[3])>>),
           Line(4, <<"outer", "loop">>, <<>>),
           Line(6, <<"vertex">>, <<Fmt6(v1[1]), Fmt6(v1[2]), Fmt6(v1[3])>>),
           Line(6, <<"vertex">>, <<Fmt6(v2[1]), Fmt6(v2[2]), Fmt6(v2[3])>>),
           Line(6, <<"vertex">>, <<Fmt6(v3[1]), Fmt6(v3[2]), Fmt6(v3[3])>>),
           Line(4, <<"endloop">>, <<>>),
           Line(4, <<"endloop">>, <<>>) >>

\* the seven lines written for one triangle
write_triangle_to_buffer(v1, v2, v3) ==
    LET normal == calculate_normal(v1, v2, v3)
    IN  << Line(2, <<"facet", "normal">>,
                <<Fmt6(normal[1]), Fmt6(normal[2]), Fmt6(normal[3])>>),
           Line(4, <<"outer", "loop">>, <<>>),
           Line(6, <<"vertex">>, <<Fmt6(v1[1]), Fmt6(v1[2]), Fmt6(v1[3])>>),
           Line(6, <<"vertex">>, <<Fmt6(v2[1]), Fmt6(v2[2]), Fmt6(v2[3])>>),
           Line(6, <<"vertex">>, <<Fmt6(v3[1]), Fmt6(v3[2]), Fmt6(v3[3])>>),
           Line(4, <<"endloop">>, <<>>),
           Line(2, <<"endfacet">>, <<>>) >>

\* header, then the block of every triangle in list order, then footer
generate_stl_content(triangles) ==
    LET n == Len(triangles)
        block == List([i \in 1..n |->
                    write_triangle_to_buffer(triangles[i][1], triangles[i][2],
                                             triangles[i][3])])
    IN  List([k \in 1..(7 * n + 2) |->
            IF k = 1 THEN create_stl_header
            ELSE IF k = 7 * n + 2 THEN create_stl_footer
            ELSE block[((k - 2) \div 7) + 1][((k - 2) % 7) + 1]])

(***************************************************************************)
(* generator.py                                                            *)
(***************************************************************************)
\* the triangle list built from an index table: vertices[i] for i in face
\* (Python indices are 0-based)
FaceTriangles(vertices, faces) ==
    List([f \in 1..Len(faces) |->
        <<vertices[faces[f][1] + 1], vertices[faces[f][2] + 1],
          vertices[faces[f][3] + 1]>>])

cube_vertices(size) ==
    << <<0, 0, 0>>, <<size, 0, 0>>, <<size, size, 0>>, <<0, size, 0>>,
       <<0, 0, size>>, <<size, 0, size>>, <<size, size, size>>, <<0, size, size>> >>

\* cube_faces with the second triangle of the base wound the other way
cube_faces_base_flipped ==
    << <<0, 1, 2>>, <<0, 3, 2>>,
       <<4, 6, 5>>, <<4, 7, 6>>,
       <<0, 4, 5>>, <<0, 5, 1>>,
       <<2, 6, 7>>, <<2, 7, 3>>,
       <<0, 3, 7>>, <<0, 7, 4>>,
       <<1, 5, 6>>, <<1, 6, 2>> >>

\* cube_faces with the left side listed twice and the right side missing
cube_faces_no_right ==
    << <<0, 1, 2>>, <<0, 2, 3>>,
       <<4, 6, 5>>, <<4, 7, 6>>,
       <<0, 4, 5>>, <<0, 5, 1>>,
       <<2, 6, 7>>, <<2, 7, 3>>,
       <<0, 3, 7>>, <<0, 7, 4>>,
       <<0, 3, 7>>, <<0, 7, 4>> >>

cube_faces ==
    << <<0, 1, 2>>, <<0, 2, 3>>,
       <<4, 6, 5>>, <<4, 7, 6>>,
       <<0, 4, 5>>, <<0, 5, 1>>,
       <<2, 6, 7>>, <<2, 7, 3>>,
       <<0, 3, 7>>, <<0, 7, 4>>,
       <<1, 5, 6>>, <<1, 6, 2>> >>

cube_triangles(size) == FaceTriangles(cube_vertices(size), cube_faces)

generate_cube(size) ==
    LET triangles == cube_triangles(size)
    IN  [raised |-> "none",
         triangles |-> triangles,
         stl_content |-> generate_stl_content(triangles),
         metadata |-> [filename |-> <<"cubo_", size, "mm.stl">>,
                       model_type |-> "cube",
                       dimensions |-> [size |-> size],
                       triangles |-> Len(triangles)]]

\* segment clamps of the cylinder and of the sphere
CylinderMinSegments == 6
CylinderMaxSegments == 256
SphereMinSegments == 6
SphereMaxSegments == 128

\* cylinder_segments without the lower clamp: min(segments, 256)
cylinder_segments_unclamped_below(segments) == Min2(segments, CylinderMaxSegments)

cylinder_segments(segments) ==
    Max2(CylinderMinSegments, Min2(segments, CylinderMaxSegments))

\* np.linspace(0, 2*np.pi, segments, endpoint=False)[i]
cylinder_angle(i, segments) == i * RDiv(2 * PI, segments)

base_inferior(radius, segments) ==
    List([k \in 1..segments |->
        <<FMul(radius, Cos(cylinder_angle(k - 1, segments))),
          FMul(radius, Sin(cylinder_angle(k - 1, segments))), 0>>])

base_superior(radius, height, segments) ==
    List([k \in 1..segments |->
        <<FMul(radius, Cos(cylinder_angle(k - 1, segments))),
          FMul(radius, Sin(cylinder_angle(k - 1, segments))), height>>])

\* (i + 1) % segments as a 1-based ring position
NextOnRing(k, segments) == (k % segments) + 1

\* cylinder_bottom_cap wound like the top cap: (centre, ring[i], ring[next_i])
cylinder_bottom_cap_as_top(inf, segments) ==
    List([k \in 1..segments |-> << <<0, 0, 0>>, inf[k], inf[NextOnRing(k, segments)]>>])

\* "Base inferior": (centro_inferior, base_inferior[next_i], base_inferior[i])
cylinder_bottom_cap(inf, segments) ==
    List([k \in 1..segments |-> << <<0, 0, 0>>, inf[NextOnRing(k, segments)], inf[k]>>])

\* "Base superior": (centro_superior, base_superior[i], base_superior[next_i])
cylinder_top_cap(sup, height, segments) ==
    List([k \in 1..segments |->
            << <<0, 0, height>>, sup[k], sup[NextOnRing(k, segments)]>>])

\* cylinder_sides appending only "Triangle 1" of each pair
cylinder_sides_half(inf, sup, segments) ==
    List([i \in 1..segments |-> <<inf[i], sup[i], inf[NextOnRing(i, segments)]>>])

\* "Cylinder sides": two triangles per ring-index pair
cylinder_sides(inf, sup, segments) ==
    List([k \in 1..(2 * segments) |->
            LET i == (k + 1) \div 2
            IN  IF k % 2 = 1
                THEN <<inf[i], sup[i], inf[NextOnRing(i, segments)]>>
                ELSE <<inf[NextOnRing(i, segments)], sup[i],
                       sup[NextOnRing(i, segments)]>>])

\* the three loops of generate_cylinder, for the clamped segment count
cylinder_triangles(radius, height, segments) ==
    LET inf == base_inferior(radius, segments)
        sup == base_superior(radius, height, segments)
    IN  cylinder_bottom_cap(inf, segments) \o cylinder_top_cap(sup, height, segments)
        \o cylinder_sides(inf, sup, segments)

generate_cylinder(radius, height, segments0) ==
    LET segments == cylinder_segments(segments0)
        triangles == cylinder_triangles(radius, height, segments)
    IN  [raised |-> "none",
         triangles |-> triangles,
         stl_content |-> generate_stl_content(triangles),
         metadata |-> [filename |-> <<"cilindro_r", radius, "_h", height, ".stl">>,
                       model_type |-> "cylinder",
                       dimensions |-> [radius |-> radius, height |-> height,
                                       segments |-> segments],
                       triangles |-> Len(triangles)]]

sphere_segments(segments) ==
    Max2(SphereMinSegments, Min2(segments, SphereMaxSegments))

\* sphere_rings without the closing ring: range(segments)
sphere_rings_open(segments) == segments

\* the latitude rings generated: range(segments + 1)
sphere_rings(segments) == segments + 1

\* latitudes that stop short of the poles
sphere_lat_short(i, segments) == RDiv(PI * (i + 1), segments + 2) - PI \div 2

\* lat of ring i and lon of sample j
sphere_lat(i, segments) == RDiv(PI * i, segments) - PI \div 2
sphere_lon(j, segments) == RDiv(2 * PI * j, segments)

\* vertices[i * segments + j] of generate_sphere; the cosines and sines of a
\* ring and of a longitude are the same numbers at every vertex that uses
\* them, so they are tabulated
sphere_vertices(radius, segments) ==
    LET rings == sphere_rings(segments)
        coslat == List([r \in 1..rings |-> Cos(sphere_lat(r - 1, segments))])
        sinlat == List([r \in 1..rings |-> Sin(sphere_lat(r - 1, segments))])
        coslon == List([c \in 1..segments |-> Cos(sphere_lon(c - 1, segments))])
        sinlon == List([c \in 1..segments |-> Sin(sphere_lon(c - 1, segments))])
    IN  List([k \in 1..(rings * segments) |->
            LET i == (k - 1) \div segments
                j == (k - 1) % segments
            IN  <<FMul(FMul(radius, coslat[i + 1]), coslon[j + 1]),
                  FMul(FMul(radius, coslat[i + 1]), sinlon[j + 1]),
                  FMul(radius, sinlat[i + 1])>>])

\* the four vertex indices of the quad (i, j): current, next_lat, next_lon,
\* next_both
sphere_indices(i, j, segments) ==
    [current   |-> i * segments + j,
     next_lat  |-> (i + 1) * segments + j,
     next_lon  |-> i * segments + ((j + 1) % segments),
     next_both |-> (i + 1) * segments + ((j + 1) % segments)]

sphere_triangles(vertices, segments) ==
    List([k \in 1..(2 * segments * segments) |->
        LET q == (k - 1) \div 2
            ix == sphere_indices(q \div segments, q % segments, segments)
        IN  IF k % 2 = 1
            THEN <<vertices[ix.current + 1], vertices[ix.next_lat + 1],
                   vertices[ix.next_lon + 1]>>
            ELSE <<vertices[ix.next_lon + 1], vertices[ix.next_lat + 1],
                   vertices[ix.next_both + 1]>>])

\* some vertices[...] of the triangle loop is out of range (IndexError)
sphere_index_error(nvertices, segments) ==
    \E i \in 0..(segments - 1), j \in 0..(segments - 1) :
        LET ix == sphere_indices(i, j, segments)
        IN  \/ ix.current >= nvertices
            \/ ix.next_lat >= nvertices
            \/ ix.next_lon >= nvertices
            \/ ix.next_both >= nvertices

generate_sphere(radius, segments0) ==
    LET segments == sphere_segments(segments0)
        vertices == sphere_vertices(radius, segments)
        triangles == sphere_triangles(vertices, segments)
    IN  IF sphere_index_error(Len(vertices), segments)
        THEN [raised |-> "IndexError", triangles |-> <<>>, stl_content |-> <<>>,
              metadata |-> [model_type |-> "none"]]
        ELSE [raised |-> "none",
              triangles |-> triangles,
              stl_content |-> generate_stl_content(triangles),
              metadata |-> [filename |-> <<"esfera_r", radius, ".stl">>,
                            model_type |-> "sphere",
                            dimensions |-> [radius |-> radius, segments |-> segments],
                            triangles |-> Len(triangles)]]

box_ext_vertices(length, width, height) ==
    << <<0, 0, 0>>, <<length, 0, 0>>, <<length, width, 0>>, <<0, width, 0>>,
       <<0, 0, height>>, <<length, 0, height>>, <<length, width, height>>,
       <<0, width, height>> >>

box_int_vertices(length, width, height, t) ==
    << <<t, t, t>>, <<length - t, t, t>>, <<length - t, width - t, t>>,
       <<t, width - t, t>>,
       <<t, t, height>>, <<length - t, t, height>>,
       <<length - t, width - t, height>>, <<t, width - t, height>> >>

box_ext_faces ==
    << <<0, 1, 2>>, <<0, 2, 3>>,
       <<0, 4, 5>>, <<0, 5, 1>>,
       <<1, 5, 6>>, <<1, 6, 2>>,
       <<2, 6, 7>>, <<2, 7, 3>>,
       <<3, 7, 4>>, <<3, 4, 0>> >>

box_int_faces ==
    << <<0, 2, 1>>, <<0, 3, 2>>,
       <<0, 5, 4>>, <<0, 1, 5>>,
       <<1, 6, 5>>, <<1, 2, 6>>,
       <<2, 7, 6>>, <<2, 3, 7>>,
       <<3, 4, 7>>, <<3, 0, 4>> >>

\* box_wall_triangles with the second pair at the back-left corner
box_wall_triangles_back_left(ext, int) ==
    << <<ext[1], int[1], ext[5]>>,
       <<int[1], int[5], ext[5]>>,
       <<ext[4], ext[8], int[4]>>,
       <<int[4], ext[8], int[8]>> >>

\* "Connect walls": the four triangles between the two shells
box_wall_triangles(ext, int) ==
    << <<ext[1], int[1], ext[5]>>,
       <<int[1], int[5], ext[5]>>,
       <<ext[2], ext[6], int[2]>>,
       <<int[2], ext[6], int[6]>> >>

box_triangles(length, width, height, t) ==
    LET ext == box_ext_vertices(length, width, height)
        int == box_int_vertices(length, width, height, t)
    IN  FaceTriangles(ext, box_ext_faces) \o FaceTriangles(int, box_int_faces)
        \o box_wall_triangles(ext, int)

generate_custom_box(length, width, height, wall_thickness) ==
    LET triangles == box_triangles(length, width, height, wall_thickness)
    IN  [raised |-> "none",
         triangles |-> triangles,
         stl_content |-> generate_stl_content(triangles),
         metadata |-> [filename |-> <<"caja_", length, "x", width, "x", height, ".stl">>,
                       model_type |-> "custom_box",
                       dimensions |-> [length |-> length, width |-> width,
                                       height |-> height,
                                       wall_thickness |-> wall_thickness],
                       triangles |-> Len(triangles)]]

(***************************************************************************)
(* Calls.  A caller invokes one generator with its arguments, the          *)
(* generator runs to completion and returns (text, metadata) or raises,    *)
(* and the caller drops the result.                                        *)
(***************************************************************************)
\* bounds of the argument sets
MaxDim == 3
SegSpread == 1

\* lengths: -0.5, 0, 0.5, ... , MaxDim * 0.5; wall thicknesses in quarter steps
DimStep == Scale \div 2
Dims == {k * DimStep : k \in -1..MaxDim}
Thicknesses == {k * (DimStep \div 2) : k \in -1..MaxDim}
BoxHeights == {DimStep, 2 * DimStep}

\* the calls of tests/test_generator.py
TestCalls ==
    { [op |-> "cube", args |-> <<10 * Scale>>],
      [op |-> "cylinder", args |-> <<5 * Scale, 10 * Scale, 20>>],
      [op |-> "cylinder", args |-> <<5 * Scale, 10 * Scale, 3>>],
      [op |-> "cylinder", args |-> <<5 * Scale, 10 * Scale, 300>>],
      [op |-> "sphere", args |-> <<5 * Scale, 20>>],
      [op |-> "sphere", args |-> <<5 * Scale, 3>>],
      [op |-> "sphere", args |-> <<5 * Scale, 200>>],
      [op |-> "custom_box", args |-> <<20 * Scale, 15 * Scale, 10 * Scale, 2 * Scale>>] }

CubeCalls == {[op |-> "cube", args |-> <<size>>] : size \in Dims}

CylinderCalls ==
    {[op |-> "cylinder", args |-> <<radius, height, segments>>] :
        radius \in Dims, height \in Dims,
        segments \in (CylinderMinSegments - SegSpread)..(CylinderMinSegments + SegSpread)}
    \cup
    {[op |-> "cylinder", args |-> <<Scale, Scale, segments>>] :
        segments \in (CylinderMaxSegments - SegSpread)..(CylinderMaxSegments + SegSpread)}

SphereCalls ==
    {[op |-> "sphere", args |-> <<radius, segments>>] :
        radius \in Dims,
        segments \in (SphereMinSegments - SegSpread)..(SphereMinSegments + SegSpread)}

BoxCalls ==
    {[op |-> "custom_box", args |-> <<length, width, height, t>>] :
        length \in Dims, width \in Dims, height \in BoxHeights, t \in Thicknesses}

Calls == TestCalls \cup CubeCalls \cup CylinderCalls \cup SphereCalls \cup BoxCalls

NoCall == [op |-> "none", args |-> <<>>]
NoMetadata == [model_type |-> "none"]
NoNormal == <<>>
NoRequest == [model_type |-> "none"]
NoResponse == [status |-> 0]

VARIABLES
    pc,           \* "idle", "called", "returned", "responded", "streaming"
    call,         \* the generator invoked and its arguments
    raised,       \* the exception the call ended with, "none" if it returned
    triangles,    \* the generator's triangle list when it returned
    stl_content,  \* the returned text, as a sequence of lines
    metadata,     \* the returned metadata
    normal,       \* the vector calculate_normal returned to the serializer
    index,        \* storage.index: filename -> file metadata
    index_keys,   \* the keys of storage.index in the order of the dict
    index_file,   \* data/exports/index.json: the index as last saved
    disk,         \* the STL files of data/exports: filename -> content
    archives,     \* the ZIP files of data/exports: filename -> member names
    clock,        \* the wall clock, in seconds
    request,      \* the POST /api/generate request being answered
    response,     \* the response to it
    jobs,         \* the rows of the jobs table, by job id
    workers,      \* the _process_job task of each job: where it is, its task
    cancels       \* the cancel request of each job: where it is

\* the application around the generators: storage, clock, request in progress
\* the job system
jobstate == <<jobs, workers, cancels>>

app == <<index, index_keys, index_file, disk, archives, clock, request,
         response, jobs, workers, cancels>>

\* what a generator call neither reads nor writes
outside == <<normal, index, index_keys, index_file, disk, archives, clock,
             request, response, jobs, workers, cancels>>

vars == <<pc, call, raised, triangles, stl_content, metadata, normal,
          index, index_keys, index_file, disk, archives, clock, request,
          response, jobs, workers, cancels>>

Init ==
    /\ pc = "idle"
    /\ call = NoCall
    /\ raised = "none"
    /\ triangles = <<>>
    /\ stl_content = <<>>
    /\ metadata = NoMetadata
    /\ normal = NoNormal
    /\ index = <<>>
    /\ index_keys = <<>>
    /\ index_file = <<>>
    /\ disk = <<>>
    /\ archives = <<>>
    /\ clock = 0
    /\ request = NoRequest
    /\ response = NoResponse
    /\ jobs = <<>>
    /\ workers = <<>>
    /\ cancels = <<>>

Invoke ==
    /\ pc = "idle"
    /\ \E c \in Calls : call' = c
    /\ pc' = "called"
    /\ UNCHANGED <<raised, triangles, stl_content, metadata>>
    /\ UNCHANGED outside

\* a generator that empties the storage index on its way out
Finish_clearing_index(r) ==
    /\ pc' = "returned"
    /\ raised' = r.raised
    /\ triangles' = r.triangles
    /\ stl_content' = r.stl_content
    /\ metadata' = r.metadata
    /\ index' = <<>>
    /\ UNCHANGED <<call, normal, index_keys, index_file, disk, archives, clock,
                   request, response>>
    /\ UNCHANGED jobstate

Finish(r) ==
    /\ pc' = "returned"
    /\ raised' = r.raised
    /\ triangles' = r.triangles
    /\ stl_content' = r.stl_content
    /\ metadata' = r.metadata
    /\ UNCHANGED call
    /\ UNCHANGED outside

GenerateCube ==
    /\ pc = "called"
    /\ call.op = "cube"
    /\ Finish(generate_cube(call.args[1]))

GenerateCylinder ==
    /\ pc = "called"
    /\ call.op = "cylinder"
    /\ Finish(generate_cylinder(call.args[1], call.args[2], call.args[3]))

GenerateSphere ==
    /\ pc = "called"
    /\ call.op = "sphere"
    /\ Finish(generate_sphere(call.args[1], call.args[2]))

GenerateCustomBox ==
    /\ pc = "called"
    /\ call.op = "custom_box"
    /\ Finish(generate_custom_box(call.args[1], call.args[2], call.args[3],
                                  call.args[4]))

Return ==
    /\ pc = "returned"
    /\ pc' = "idle"
    /\ call' = NoCall
    /\ raised' = "none"
    /\ triangles' = <<>>
    /\ stl_content' = <<>>
    /\ metadata' = NoMetadata
    /\ UNCHANGED outside

Next ==
    \/ Invoke
    \/ GenerateCube
    \/ GenerateCylinder
    \/ GenerateSphere
    \/ GenerateCustomBox
    \/ Return

Spec == Init /\ [][Next]_vars

(***************************************************************************)
(* The serializer on its own: write_triangle_to_buffer is handed three     *)
(* vertices, asks calculate_normal for the facet normal and writes the     *)
(* seven lines of the facet into an empty buffer.                          *)
(***************************************************************************)
\* bound of the vertex lattice
MaxCoord == 1

\* vertices on a lattice of half units around the origin; first vertices at
\* the origin and at a point between the lattice points
NormalStep == Scale \div 2
LatticeUnit == NormalStep \div 2
Lattice == {k * NormalStep : k \in -1..MaxCoord}
NormalVertices == {<<x, y, z>> : x \in Lattice, y \in Lattice, z \in Lattice}
NormalOrigins == {<<0, 0, 0>>, <<LatticeUnit, -NormalStep, 3 * LatticeUnit>>}

NormalCalls ==
    {[op |-> "write_triangle_to_buffer", args |-> <<v1, v2, v3>>] :
        v1 \in NormalOrigins, v2 \in NormalVertices, v3 \in NormalVertices}

InvokeSerializer ==
    /\ pc = "idle"
    /\ \E c \in NormalCalls : call' = c
    /\ pc' = "called"
    /\ UNCHANGED <<raised, triangles, stl_content, metadata, normal>>
    /\ UNCHANGED app

WriteTriangle ==
    /\ pc = "called"
    /\ call.op = "write_triangle_to_buffer"
    /\ pc' = "returned"
    /\ raised' = "none"
    /\ normal' = calculate_normal(call.args[1], call.args[2], call.args[3])
    /\ stl_content' = write_triangle_to_buffer(call.args[1], call.args[2],
                                               call.args[3])
    /\ UNCHANGED <<call, triangles, metadata>>
    /\ UNCHANGED app

ReturnSerializer ==
    /\ pc = "returned"
    /\ pc' = "idle"
    /\ call' = NoCall
    /\ raised' = "none"
    /\ stl_content' = <<>>
    /\ normal' = NoNormal
    /\ UNCHANGED <<triangles, metadata>>
    /\ UNCHANGED app

NormalNext ==
    \/ InvokeSerializer
    \/ WriteTriangle
    \/ ReturnSerializer

NormalSpec == Init /\ [][NormalNext]_vars

(***************************************************************************)
(* Reading the text back                                                   *)
(***************************************************************************)
\* the number a printed number denotes
RECURSIVE DigitsValue(_)
DigitsValue(d) ==
    IF d = <<>> THEN 0 ELSE 10 * DigitsValue(SubSeq(d, 1, Len(d) - 1)) + d[Len(d)]

Val(p) ==
    (IF p.sign = "-" THEN -1 ELSE 1)
    * (p.int * Scale + DigitsValue(p.frac) * 10 ^ (FracDigits - Len(p.frac)))

Vals(numbers) == <<Val(numbers[1]), Val(numbers[2]), Val(numbers[3])>>

\* str.count: the places of the text where the words of phrase follow one
\* another (a line holds at most two words)
Occurrences(text, phrase) ==
    Cardinality({p \in (1..Len(text)) \X (1..2) :
        /\ p[2] + Len(phrase) - 1 <= Len(text[p[1]].words)
        /\ SubSeq(text[p[1]].words, p[2], p[2] + Len(phrase) - 1) = phrase})

\* the k-th line of the block of facet i
FacetLine(text, i, k) == text[7 * (i - 1) + 1 + k]

Returned == pc = "returned" /\ raised = "none"

(***************************************************************************)
(* models/schemas.py: the pydantic models of the request parameters.  A    *)
(* params dict is a record; a model applied to it is valid or not, and     *)
(* when valid carries the validated fields.                                *)
(***************************************************************************)
Has(params, field) == field \in DOMAIN params

\* Field(..., ge=ge, le=le) on a required field
InRange(params, field, ge, le) ==
    /\ Has(params, field)
    /\ params[field] >= ge
    /\ params[field] <= le

Invalid == [valid |-> FALSE]

\* segments: int = Field(20, ...)
DefaultSegments == 20

CubeParams(params) ==
    IF InRange(params, "size", Scale \div 10, 500 * Scale)
    THEN [valid |-> TRUE, size |-> params.size]
    ELSE Invalid

\* CylinderParams with le=300 on segments
CylinderParams_le_300(params) ==
    LET segments == IF Has(params, "segments") THEN params.segments
                    ELSE DefaultSegments
    IN  IF /\ InRange(params, "radius", Scale \div 10, 250 * Scale)
           /\ InRange(params, "height", Scale \div 10, 500 * Scale)
           /\ segments >= 6
           /\ segments <= 300
        THEN [valid |-> TRUE, radius |-> params.radius, height |-> params.height,
              segments |-> segments]
        ELSE Invalid

CylinderParams(params) ==
    LET segments == IF Has(params, "segments") THEN params.segments
                    ELSE DefaultSegments
    IN  IF /\ InRange(params, "radius", Scale \div 10, 250 * Scale)
           /\ InRange(params, "height", Scale \div 10, 500 * Scale)
           /\ segments >= 6
           /\ segments <= 256
        THEN [valid |-> TRUE, radius |-> params.radius, height |-> params.height,
              segments |-> segments]
        ELSE Invalid

SphereParams(params) ==
    LET segments == IF Has(params, "segments") THEN params.segments
                    ELSE DefaultSegments
    IN  IF /\ InRange(params, "radius", Scale \div 10, 250 * Scale)
           /\ segments >= 6
           /\ segments <= 128
        THEN [valid |-> TRUE, radius |-> params.radius, segments |-> segments]
        ELSE Invalid

\* the validator of wall_thickness runs after length and width: v must be
\* below min(length, width) / 2
CustomBoxParams(params) ==
    IF /\ InRange(params, "length", Scale, 500 * Scale)
       /\ InRange(params, "width", Scale, 500 * Scale)
       /\ InRange(params, "height", Scale, 500 * Scale)
       /\ InRange(params, "wall_thickness", Scale \div 10, 50 * Scale)
       /\ ~(2 * params.wall_thickness >= Min2(params.length, params.width))
    THEN [valid |-> TRUE, length |-> params.length, width |-> params.width,
          height |-> params.height, wall_thickness |-> params.wall_thickness]
    ELSE Invalid

\* an optional string that was not given (None); like the empty string it
\* is false in a condition
None == ""

Given(params, field) == IF Has(params, field) THEN params[field] ELSE None

AIModelParams(params) ==
    LET style == IF Has(params, "style") THEN params.style ELSE "realistic"
    IN  IF /\ style \in {"realistic", "cartoon", "fantasy", "sci-fi"}
           /\ ~(Given(params, "template_id") = None
                /\ Given(params, "custom_prompt") = None)
        THEN [valid |-> TRUE, template_id |-> Given(params, "template_id"),
              custom_prompt |-> Given(params, "custom_prompt"), style |-> style]
        ELSE Invalid

\* the Literal with the box under the name hollow_box and without ai_model
ModelTypes_hollow_box == {"cube", "cylinder", "sphere", "hollow_box"}

\* model_type: Literal[...] of GenerateRequest
ModelTypes == {"cube", "cylinder", "sphere", "custom_box", "ai_model"}

(***************************************************************************)
(* services/ai_generator.py                                                *)
(***************************************************************************)
Templates ==
    {"castillo_medieval", "muneco_ninja", "dragon_fantastico", "casa_moderna",
     "robot_futurista", "princesa_cartoon", "nave_espacial", "torre_mago",
     "dinosaurio_trex", "coche_deportivo"}

TemplateStyle(id) ==
    IF id \in {"muneco_ninja", "princesa_cartoon"} THEN "cartoon" ELSE "realistic"

TemplateCategory(id) ==
    IF id \in {"castillo_medieval", "casa_moderna"} THEN "Architecture"
    ELSE IF id \in {"muneco_ninja", "princesa_cartoon"} THEN "Characters"
    ELSE IF id \in {"dragon_fantastico", "torre_mago"} THEN "Fantasy"
    ELSE IF id \in {"robot_futurista", "nave_espacial"} THEN "Sci-Fi"
    ELSE IF id = "dinosaurio_trex" THEN "Animals"
    ELSE "Vehicles"

\* what the Meshy service does with a generation task: the key is not
\* configured, the task fails or times out, or the model is downloaded
MeshyOutcomes == {"no_key", "failed", "completed"}

\* the text Meshy delivers: not produced by this program
MeshyText ==
    << Line(0, <<"solid", "meshy">>, <<>>),
       Line(2, <<"facet", "normal">>, <<Fmt6(0), Fmt6(0), Fmt6(Scale)>>),
       Line(2, <<"endfacet">>, <<>>),
       Line(0, <<"endsolid", "meshy">>, <<>>) >>

\* the result of the local generator with the metadata that record the AI
\* attempt
fallback_result(cube, prompt, template_id, now) ==
    [raised |-> "none",
     triangles |-> cube.triangles,
     stl_content |-> cube.stl_content,
     metadata |-> [filename |-> <<template_id, "_fallback_", now, ".stl">>,
                   model_type |-> "ai_fallback",
                   dimensions |-> cube.metadata.dimensions,
                   triangles |-> cube.metadata.triangles,
                   prompt |-> prompt,
                   ai_provider |-> "local_fallback",
                   note |-> "AI generation failed, using enhanced geometric fallback"]]

\* _fallback_generation: generate_cube(20.0)
fallback_generation(prompt, template_id, now) ==
    fallback_result(generate_cube(20 * Scale), prompt, template_id, now)

\* a call that ended with an exception returns nothing
Raise(exception) ==
    [raised |-> exception, triangles |-> <<>>, stl_content |-> <<>>,
     metadata |-> NoMetadata]

generate_professional_model(template_id, custom_prompt, meshy, now) ==
    LET known == template_id # None /\ template_id \in Templates
        prompt == IF known THEN <<"template", template_id>>
                  ELSE <<"enhanced", custom_prompt>>
        style == IF known THEN TemplateStyle(template_id) ELSE "realistic"
        category == IF known THEN TemplateCategory(template_id) ELSE "Custom"
        name == IF template_id # None THEN template_id ELSE "custom"
    IN  IF ~known /\ custom_prompt = None THEN Raise("ValueError")
        ELSE IF meshy = "completed"
        THEN [raised |-> "none",
              triangles |-> <<>>,
              stl_content |-> MeshyText,
              metadata |-> [filename |-> <<name, "_", now, ".stl">>,
                            model_type |-> "ai_generated",
                            category |-> category,
                            prompt |-> prompt,
                            style |-> style,
                            ai_provider |-> "meshy",
                            triangles |->
                                Occurrences(MeshyText, <<"facet", "normal">>)]]
        ELSE fallback_generation(prompt, name, now)

(***************************************************************************)
(* api/routes.py: validate_and_generate                                    *)
(***************************************************************************)
\* an exception of the generator or of the parameter model becomes
\* HTTPException(status_code=400)
BadRequest(r) == IF r.raised = "none" THEN r ELSE Raise("HTTPException 400")

validate_and_generate(model_type, params, meshy, now) ==
    IF model_type = "cube"
    THEN LET p == CubeParams(params)
         IN  IF p.valid THEN BadRequest(generate_cube(p.size))
             ELSE Raise("HTTPException 400")
    ELSE IF model_type = "cylinder"
    THEN LET p == CylinderParams(params)
         IN  IF p.valid
             THEN BadRequest(generate_cylinder(p.radius, p.height, p.segments))
             ELSE Raise("HTTPException 400")
    ELSE IF model_type = "sphere"
    THEN LET p == SphereParams(params)
         IN  IF p.valid THEN BadRequest(generate_sphere(p.radius, p.segments))
             ELSE Raise("HTTPException 400")
    ELSE IF model_type = "custom_box"
    THEN LET p == CustomBoxParams(params)
         IN  IF p.valid
             THEN BadRequest(generate_custom_box(p.length, p.width, p.height,
                                                 p.wall_thickness))
             ELSE Raise("HTTPException 400")
    ELSE IF model_type = "ai_model"
    THEN LET p == AIModelParams(params)
         IN  IF p.valid
             THEN BadRequest(generate_professional_model(p.template_id,
                                p.custom_prompt, meshy, now))
             ELSE Raise("HTTPException 400")
    ELSE Raise("HTTPException 400")

(***************************************************************************)
(* services/storage.py                                                     *)
(***************************************************************************)
\* what _generate_filename keeps of a piece of the base filename: the
\* extension is split off and every character that is not alphanumeric or
\* one of "._-" is dropped.  The pieces of the names the generators build
\* are words of letters and "_", and numbers printed in digits, "." and "-":
\* nothing of them is dropped
Kept(s) ==
    CASE s = ToString("mm.stl") -> "mm"
      [] s = ToString(".stl") -> ""
      [] OTHER -> s

\* f"{name}_{timestamp}{ext}": the timestamp has the resolution of a second
generate_filename(base_filename, now) ==
    [name |-> List([i \in 1..Len(base_filename) |-> Kept(ToString(base_filename[i]))]),
     stamp |-> now,
     ext |-> ".stl"]

\* len(word)
WordLength(w) ==
    CASE w = "solid" -> 5
      [] w = "endsolid" -> 8
      [] w = "modelo3d" -> 8
      [] w = "meshy" -> 5
      [] w = "facet" -> 5
      [] w = "normal" -> 6
      [] w = "endfacet" -> 8
      [] w = "outer" -> 5
      [] w = "loop" -> 4
      [] w = "endloop" -> 7
      [] w = "vertex" -> 6

\* number of decimal digits of n >= 0
RECURSIVE DigitCount(_)
DigitCount(n) == IF n < 10 THEN 1 ELSE 1 + DigitCount(n \div 10)

\* characters of a printed number: sign, integer digits, point, fraction
NumberLength(p) ==
    (IF p.sign = "-" THEN 1 ELSE 0) + DigitCount(p.int) + 1 + Len(p.frac)

\* f[lo] + ... + f[hi], by halves
RECURSIVE SumRange(_, _, _)
SumRange(f, lo, hi) ==
    IF lo > hi THEN 0
    ELSE IF lo = hi THEN f[lo]
    ELSE SumRange(f, lo, (lo + hi) \div 2) + SumRange(f, (lo + hi) \div 2 + 1, hi)

SumOver(f, n) == SumRange(f, 1, n)

\* characters of a line: indentation, the words and numbers with one space
\* between them, and the newline
LineLength(line) ==
    line.indent
    + SumOver([k \in 1..Len(line.words) |-> WordLength(line.words[k])],
              Len(line.words))
    + SumOver([k \in 1..Len(line.numbers) |-> NumberLength(line.numbers[k])],
              Len(line.numbers))
    + (Len(line.words) + Len(line.numbers) - 1) + 1

\* file_path.stat().st_size of the text written
SizeBytes(content) ==
    SumOver(List([k \in 1..Len(content) |-> LineLength(content[k])]), Len(content))

\* a dict with one more (or one replaced) entry
Put(d, key, value) ==
    [k \in DOMAIN d \cup {key} |-> IF k = key THEN value ELSE d[k]]

\* the order of the keys of a dict after d[key] = value: a new key goes to
\* the end, a key that is there keeps its place
Keyed(keys, key) ==
    IF \E k \in 1..Len(keys) : keys[k] = key THEN keys ELSE Append(keys, key)

\* datetime.now().isoformat() has microseconds: of two calls in one second
\* the later one gets the later time.  A time is the second and the rank
\* of the call among the times of that second still in the index.
Later(idx, now) ==
    LET same == {idx[f].created_at.rank :
                    f \in {g \in DOMAIN idx : idx[g].created_at.second = now}}
    IN  [second |-> now,
         rank |-> IF same = {} THEN 1
                  ELSE 1 + CHOOSE r \in same : \A q \in same : q <= r]

\* created_at of a before that of b
Before(a, b) ==
    \/ a.second < b.second
    \/ a.second = b.second /\ a.rank < b.rank

\* save_file: the file is written first, then the metadata are built and
\* indexed; metadata without "dimensions" end the call with KeyError after
\* the file is written
save_file(idx, dsk, content, meta, now) ==
    LET unique_filename == generate_filename(meta.filename, now)
        written == Put(dsk, unique_filename, content)
        file_metadata ==
            [filename |-> unique_filename,
             model_type |-> meta.model_type,
             dimensions |-> meta.dimensions,
             category |-> None,
             triangles |-> meta.triangles,
             size_bytes |-> SizeBytes(content),
             created_at |-> Later(idx, now),
             prompt |-> None,
             style |-> None,
             ai_provider |-> None]
    IN  IF ~Has(meta, "dimensions")
        THEN [raised |-> "KeyError", disk |-> written, index |-> idx]
        ELSE [raised |-> "none", disk |-> written,
              index |-> Put(idx, unique_filename, file_metadata),
              file_metadata |-> file_metadata]

\* a dict without the entry of key
Without(d, key) == [k \in DOMAIN d \ {key} |-> d[k]]

\* a list without its k-th element
Removed(keys, k) == SubSeq(keys, 1, k - 1) \o SubSeq(keys, k + 1, Len(keys))

\* get_file_path without "and filename in self.index"
get_file_path_on_disk(idx, dsk, filename) ==
    IF filename \in DOMAIN dsk THEN <<filename>> ELSE <<>>

\* get_file_path: the path when the file exists and is indexed, else None;
\* an Optional is a sequence of at most one element
get_file_path(idx, dsk, filename) ==
    IF filename \in DOMAIN dsk /\ filename \in DOMAIN idx
    THEN <<filename>>
    ELSE <<>>

\* sorted by created_at, newest first; list.sort is stable, so entries of
\* one time keep their order
NewestFirst(files) ==
    LET place(k) ==
            1 + Cardinality({j \in 1..Len(files) :
                                Before(files[k].created_at, files[j].created_at)})
              + Cardinality({j \in 1..(k - 1) :
                                files[j].created_at = files[k].created_at})
    IN  List([p \in 1..Len(files) |->
                 files[CHOOSE k \in 1..Len(files) : place(k) = p]])

\* list_files: the loop over self.index.items() appends the entries whose
\* file exists.  At the first entry whose file is missing the entry is
\* deleted and the index saved; the dict has changed size, so the next step
\* of the iteration raises RuntimeError
list_files(idx, keys, dsk) ==
    LET missing == {k \in 1..Len(keys) : keys[k] \notin DOMAIN dsk}
        first == CHOOSE k \in missing : \A j \in missing : k <= j
    IN  IF missing = {}
        THEN [raised |-> "none",
              files |-> NewestFirst(List([k \in 1..Len(keys) |-> idx[keys[k]]])),
              index |-> idx, keys |-> keys, saved |-> FALSE]
        ELSE [raised |-> "RuntimeError",
              files |-> <<>>,
              index |-> Without(idx, keys[first]),
              keys |-> Removed(keys, first), saved |-> TRUE]

\* f"models_3d_{timestamp}.zip": the timestamp has the resolution of a second
zip_filename(now) == [name |-> <<"models_3d">>, stamp |-> now, ext |-> ".zip"]

\* create_zip: the archive is opened for writing, which creates it, and the
\* files are added in the order of the request; at the first one that
\* get_file_path does not find the call returns None and the archive stays
\* as it is, with the files added before
create_zip(idx, dsk, arch, filenames, now) ==
    LET zip_path == zip_filename(now)
        missing == {k \in 1..Len(filenames) :
                       get_file_path(idx, dsk, filenames[k]) = <<>>}
        first == CHOOSE k \in missing : \A j \in missing : k <= j
    IN  IF missing = {}
        THEN [zip_path |-> <<zip_path>>,
              archives |-> Put(arch, zip_path, filenames)]
        ELSE [zip_path |-> <<>>,
              archives |-> Put(arch, zip_path, SubSeq(filenames, 1, first - 1))]

(***************************************************************************)
(* api/routes.py: POST /api/generate, and the clock.  The generators are   *)
(* also called directly, as the tests do.                                  *)
(***************************************************************************)
\* bounds: files kept in the export directory, seconds the clock runs
MaxFiles == 1
MaxClock == 1

Request(model_type, params) == [model_type |-> model_type, params |-> params]

\* requests of tests/test_api.py and others around the bounds of the schemas
ApiRequests ==
    { Request("cube", [size |-> 10 * Scale]),
      Request("cube", [size |-> -Scale]),
      Request("cube", [size |-> Scale \div 20]),
      Request("cube", [size |-> 600 * Scale]),
      Request("cylinder", [radius |-> Scale, height |-> 2 * Scale, segments |-> 6]),
      Request("cylinder", [radius |-> Scale, height |-> 2 * Scale, segments |-> 5]),
      Request("cylinder", [radius |-> Scale, height |-> 2 * Scale, segments |-> 257]),
      Request("sphere", [radius |-> Scale, segments |-> 6]),
      Request("sphere", [radius |-> Scale, segments |-> 129]),
      Request("custom_box", [length |-> 20 * Scale, width |-> 15 * Scale,
                             height |-> 10 * Scale, wall_thickness |-> 2 * Scale]),
      Request("custom_box", [length |-> 10 * Scale, width |-> 10 * Scale,
                             height |-> 2 * Scale, wall_thickness |-> 5 * Scale]),
      Request("custom_box", [length |-> 10 * Scale, width |-> 10 * Scale,
                             height |-> 2 * Scale, wall_thickness |-> 2 * Scale]),
      Request("hollow_box", [length |-> 20 * Scale, width |-> 15 * Scale,
                             height |-> 10 * Scale, wall_thickness |-> 2 * Scale]),
      Request("invalid_type", [size |-> 10 * Scale]),
      Request("ai_model", [template_id |-> "castillo_medieval"]),
      Request("ai_model", [custom_prompt |-> "vase"]),
      Request("ai_model", [style |-> "realistic"]) }

DirectCalls ==
    { [op |-> "cube", args |-> <<10 * Scale>>],
      [op |-> "cylinder", args |-> <<Scale, 2 * Scale, 6>>],
      [op |-> "sphere", args |-> <<Scale, 6>>],
      [op |-> "custom_box", args |-> <<20 * Scale, 15 * Scale, 10 * Scale, 2 * Scale>>] }

Tick ==
    /\ pc = "idle"
    /\ clock < MaxClock
    /\ clock' = clock + 1
    /\ UNCHANGED <<pc, call, raised, triangles, stl_content, metadata, normal,
                   index, index_keys, index_file, disk, archives, request,
                   response>>
    /\ UNCHANGED jobstate

\* generate_model after save_file has returned s: KeyError is answered with
\* 500, the stored file with its metadata and its download address
generate_model_saved(s) ==
    IF s.raised # "none"
    THEN /\ response' = [status |-> 500]
         /\ disk' = s.disk
         /\ UNCHANGED <<index, index_keys, index_file>>
    ELSE /\ response' =
                [status |-> 200, success |-> TRUE,
                 metadata |-> s.file_metadata,
                 download_url |-> <<"/api/files/", s.file_metadata.filename>>]
         /\ disk' = s.disk
         /\ index' = s.index
         /\ index_keys' = Keyed(index_keys, s.file_metadata.filename)
         /\ index_file' = s.index

\* generate_model without "except HTTPException: raise": the status of
\* validate_and_generate is lost in the handler of Exception
generate_model_generated_500(r) ==
    /\ raised' = r.raised
    /\ triangles' = r.triangles
    /\ stl_content' = r.stl_content
    /\ metadata' = r.metadata
    /\ IF r.raised # "none"
       THEN /\ response' = [status |-> 500]
            /\ UNCHANGED <<index, index_keys, index_file, disk>>
       ELSE generate_model_saved(save_file(index, disk, r.stl_content,
                                           r.metadata, clock))

\* generate_model after validate_and_generate has returned r: its
\* HTTPException goes to the client, its model is saved
generate_model_generated(r) ==
    /\ raised' = r.raised
    /\ triangles' = r.triangles
    /\ stl_content' = r.stl_content
    /\ metadata' = r.metadata
    /\ IF r.raised # "none"
       THEN /\ response' = [status |-> 400]
            /\ UNCHANGED <<index, index_keys, index_file, disk>>
       ELSE generate_model_saved(save_file(index, disk, r.stl_content,
                                           r.metadata, clock))

\* generate_model: the request model, validate_and_generate, save_file and
\* the response
generate_model(req, meshy) ==
    IF req.model_type \notin ModelTypes
    THEN /\ response' = [status |-> 422]
         /\ raised' = "RequestValidationError"
         /\ UNCHANGED <<triangles, stl_content, metadata, index, index_keys,
                        index_file, disk>>
    ELSE generate_model_generated(
             validate_and_generate(req.model_type, req.params, meshy, clock))

\* the params dict passes the parameter model of the kind; a hollow_box
\* carries the parameters of the box
ValidParams(model_type, params) ==
    IF model_type = "cube" THEN CubeParams(params).valid
    ELSE IF model_type = "cylinder" THEN CylinderParams(params).valid
    ELSE IF model_type = "sphere" THEN SphereParams(params).valid
    ELSE IF model_type \in {"custom_box", "hollow_box"}
    THEN CustomBoxParams(params).valid
    ELSE IF model_type = "ai_model" THEN AIModelParams(params).valid
    ELSE FALSE

\* the request is refused by the request model or by the parameter model,
\* before any generator runs
Refused(req) ==
    \/ req.model_type \notin ModelTypes
    \/ ~ValidParams(req.model_type, req.params)

\* once MaxFiles files are stored only the requests that are refused are
\* followed
PostGenerate ==
    /\ pc = "idle"
    /\ \E req \in ApiRequests, meshy \in MeshyOutcomes :
          /\ Cardinality(DOMAIN disk) < MaxFiles \/ Refused(req)
          /\ req.model_type # "ai_model" => meshy = "no_key"
          /\ request' = req
          /\ generate_model(req, meshy)
    /\ pc' = "responded"
    /\ UNCHANGED <<call, normal, archives, clock>>
    /\ UNCHANGED jobstate

\* the response has gone to the client
Deliver ==
    /\ pc = "responded"
    /\ pc' = "idle"
    /\ request' = NoRequest
    /\ response' = NoResponse
    /\ raised' = "none"
    /\ triangles' = <<>>
    /\ stl_content' = <<>>
    /\ metadata' = NoMetadata
    /\ UNCHANGED <<call, normal, index, index_keys, index_file, disk, archives,
                   clock>>
    /\ UNCHANGED jobstate

InvokeDirect ==
    /\ pc = "idle"
    /\ \E c \in DirectCalls : call' = c
    /\ pc' = "called"
    /\ UNCHANGED <<raised, triangles, stl_content, metadata>>
    /\ UNCHANGED outside

ApiNext ==
    \/ Tick
    \/ PostGenerate
    \/ Deliver
    \/ InvokeDirect
    \/ GenerateCube
    \/ GenerateCylinder
    \/ GenerateSphere
    \/ GenerateCustomBox
    \/ Return

ApiSpec == Init /\ [][ApiNext]_vars

(***************************************************************************)
(* api/routes.py: validate_and_generate called with the segment counts     *)
(* around the bounds of the parameter models and of the generators, with   *)
(* and without the optional field.                                         *)
(***************************************************************************)
ValidRadii == {DimStep, 2 * DimStep, 3 * DimStep}

SegmentRequests ==
    {Request("cylinder", [radius |-> radius, height |-> height, segments |-> n]) :
        radius \in ValidRadii, height \in ValidRadii,
        n \in (CylinderMinSegments - SegSpread)..(CylinderMinSegments + SegSpread)}
    \cup
    {Request("cylinder", [radius |-> Scale, height |-> Scale, segments |-> n]) :
        n \in (CylinderMaxSegments - SegSpread)..(CylinderMaxSegments + SegSpread)}
    \cup
    {Request("cylinder", [radius |-> radius, height |-> height]) :
        radius \in ValidRadii, height \in ValidRadii}
    \cup
    {Request("sphere", [radius |-> radius, segments |-> n]) :
        radius \in ValidRadii,
        n \in (SphereMinSegments - SegSpread)..(SphereMinSegments + SegSpread)}
    \cup
    {Request("sphere", [radius |-> Scale, segments |-> n]) :
        n \in (SphereMaxSegments - SegSpread)..(SphereMaxSegments + SegSpread)}
    \cup
    {Request("sphere", [radius |-> radius]) : radius \in ValidRadii}

InvokeValidate ==
    /\ pc = "idle"
    /\ \E req \in SegmentRequests :
          call' = [op |-> "validate_and_generate",
                   args |-> <<req.model_type, req.params>>]
    /\ pc' = "called"
    /\ UNCHANGED <<raised, triangles, stl_content, metadata>>
    /\ UNCHANGED outside

ValidateAndGenerate ==
    /\ pc = "called"
    /\ call.op = "validate_and_generate"
    /\ Finish(validate_and_generate(call.args[1], call.args[2], "no_key", clock))

SegmentNext ==
    \/ InvokeValidate
    \/ ValidateAndGenerate
    \/ Return

SegmentSpec == Init /\ [][SegmentNext]_vars

(***************************************************************************)
(* api/routes.py: GET /api/files and POST /api/zip, with the files of the  *)
(* export directory saved by POST /api/generate and deleted from outside.  *)
(***************************************************************************)
\* bounds: STL files kept in the export directory, archives left in it
MaxStored == 2
MaxArchives == 1

\* a cube, two cylinders that differ in their segments only, and a model
\* Meshy delivers
StorageRequests ==
    { Request("cube", [size |-> 10 * Scale]),
      Request("cylinder", [radius |-> Scale, height |-> 2 * Scale, segments |-> 6]),
      Request("cylinder", [radius |-> Scale, height |-> 2 * Scale, segments |-> 7]),
      Request("ai_model", [template_id |-> "castillo_medieval"]) }

\* a name no file was ever stored under
Nonexistent == [name |-> <<"nonexistent">>, stamp |-> 0, ext |-> ".stl"]

\* the names a client may ask for: what it has seen stored, and one more
KnownNames == DOMAIN disk \cup DOMAIN index \cup {Nonexistent}

\* the filenames of a ZipRequest, before min_length=1 is checked
ZipRequests ==
    {<<>>} \cup {<<f>> : f \in KnownNames}
           \cup {<<f, g>> : f \in KnownNames, g \in KnownNames}

\* POST /api/generate, followed when it leaves at most MaxStored files in
\* the export directory and when at most MaxStored saves of this second are
\* indexed
StoreGenerate ==
    /\ pc = "idle"
    /\ Later(index, clock).rank <= MaxStored + 1
    /\ \E req \in StorageRequests :
          /\ request' = req
          /\ generate_model(req, IF req.model_type = "ai_model"
                                 THEN "completed" ELSE "no_key")
    /\ Cardinality(DOMAIN disk') <= MaxStored
    /\ pc' = "responded"
    /\ UNCHANGED <<call, normal, archives, clock>>
    /\ UNCHANGED jobstate

\* a file of the export directory is deleted by someone else
RemoveFile ==
    /\ pc = "idle"
    /\ \E f \in DOMAIN disk : disk' = Without(disk, f)
    /\ UNCHANGED <<pc, call, raised, triangles, stl_content, metadata, normal,
                   index, index_keys, index_file, archives, clock, request,
                   response>>
    /\ UNCHANGED jobstate

\* GET /api/files: the list and its length, or 500 when list_files raises
GetFiles ==
    /\ pc = "idle"
    /\ LET r == list_files(index, index_keys, disk)
       IN  /\ raised' = r.raised
           /\ index' = r.index
           /\ index_keys' = r.keys
           /\ index_file' = IF r.saved THEN r.index ELSE index_file
           /\ response' = IF r.raised # "none"
                          THEN [status |-> 500]
                          ELSE [status |-> 200, files |-> r.files,
                                total_count |-> Len(r.files)]
    /\ request' = [route |-> "files"]
    /\ pc' = "responded"
    /\ UNCHANGED <<call, triangles, stl_content, metadata, normal, disk,
                   archives, clock>>
    /\ UNCHANGED jobstate

\* POST /api/zip: 422 from the request model for an empty list, 400 when
\* create_zip returns None, else the response that will stream the archive;
\* followed while fewer than MaxArchives archives are left
PostZip ==
    /\ pc = "idle"
    /\ Cardinality(DOMAIN archives) < MaxArchives
    /\ \E filenames \in ZipRequests :
          /\ request' = [route |-> "zip", filenames |-> filenames]
          /\ IF Len(filenames) < 1
             THEN /\ response' = [status |-> 422]
                  /\ pc' = "responded"
                  /\ UNCHANGED archives
             ELSE LET z == create_zip(index, disk, archives, filenames, clock)
                  IN  /\ archives' = z.archives
                      /\ IF z.zip_path = <<>>
                         THEN /\ response' = [status |-> 400]
                              /\ pc' = "responded"
                         ELSE /\ response' = [status |-> 200,
                                              zip_path |-> z.zip_path[1]]
                              /\ pc' = "streaming"
    /\ UNCHANGED <<call, raised, triangles, stl_content, metadata, normal,
                   index, index_keys, index_file, disk, clock>>
    /\ UNCHANGED jobstate

\* cleanup_zip: the archive is read to its end and then unlinked
StreamZip ==
    /\ pc = "streaming"
    /\ response' = [status |-> 200, zip_path |-> response.zip_path,
                    body |-> archives[response.zip_path]]
    /\ archives' = Without(archives, response.zip_path)
    /\ pc' = "responded"
    /\ UNCHANGED <<call, raised, triangles, stl_content, metadata, normal,
                   index, index_keys, index_file, disk, clock, request>>
    /\ UNCHANGED jobstate

\* the requests of a behaviour fall into one second of the clock
StorageNext ==
    \/ StoreGenerate
    \/ RemoveFile
    \/ GetFiles
    \/ PostZip
    \/ StreamZip
    \/ Deliver

StorageSpec == Init /\ [][StorageNext]_vars

(***************************************************************************)
(* backend/app/services/job_manager.py and backend/app/api/job_routes.py:  *)
(* jobs, the task that processes each of them, and the cancel requests.    *)
(* Every await of the code is a point where the other coroutines run.      *)
(***************************************************************************)
\* bound: jobs created
MaxJobs == 1

\* JobType
JobTypes == {"text_to_image", "image_enhance", "text_to_3d", "image_to_3d",
             "basic_3d"}

\* the values of JobStatus other than pending and processing, which
\* cancel_job takes for the statuses of a job that still runs
Terminal == {"completed", "failed", "cancelled"}

\* provider_manager after initialize_providers with OPENAI_API_KEY set:
\* nothing registers a provider of another kind
image_gen_providers == {"openai"}
text_3d_providers == {}

\* the provider names jobs are created with: a registered one, the default
\* of the 3D routes, and None
ProviderNames == {"openai", "meshy", None}

\* what a provider reports of a task: TaskStatus and progress
TaskReports ==
    { [status |-> "pending", progress |-> 0],
      [status |-> "processing", progress |-> 50],
      [status |-> "completed", progress |-> 100],
      [status |-> "failed", progress |-> 0] }

\* a report that ends the polling
Final(task) == task.status \notin {"pending", "processing"}

NoTask == [status |-> "none", progress |-> 0]

\* UPDATE jobs SET ... WHERE id = job_id
Updated(job_id, columns) ==
    [jobs EXCEPT ![job_id] =
        [c \in DOMAIN jobs[job_id] |->
            IF c \in DOMAIN columns THEN columns[c] ELSE jobs[job_id][c]]]

\* the task of job_id is at position at
At(job_id, at) == job_id \in DOMAIN workers /\ workers[job_id].pc = at

\* the task of job_id goes on to position at; its other local is its task
Goto(job_id, at, task) ==
    workers' = [workers EXCEPT ![job_id] = [pc |-> at, task |-> task]]

\* what a step of the job system leaves alone
NoJobEffect ==
    UNCHANGED <<pc, call, raised, triangles, stl_content, metadata, normal,
                index, index_keys, index_file, disk, archives, clock,
                request, response>>

\* create_job: the row is inserted as pending and the task that processes
\* the job is created
create_job ==
    /\ Len(jobs) < MaxJobs
    /\ \E job_type \in JobTypes, provider \in ProviderNames :
          jobs' = Append(jobs, [type |-> job_type, provider |-> provider,
                                status |-> "pending", progress_percent |-> 0,
                                external_job_id |-> None, asset_id |-> None,
                                error_message |-> None])
    /\ workers' = Append(workers, [pc |-> "start", task |-> NoTask])
    /\ cancels' = Append(cancels, "none")
    /\ NoJobEffect

\* _process_job: await self._update_job_status(job_id, JobStatus.PROCESSING)
process_job_start(job_id) ==
    /\ At(job_id, "start")
    /\ jobs' = Updated(job_id, [status |-> "processing"])
    /\ Goto(job_id, "get_job", NoTask)
    /\ UNCHANGED cancels
    /\ NoJobEffect

\* _process_job: await self.get_job(job_id) and the routing by job type, up
\* to the next await.  A text_to_image job goes to create_task when its
\* provider is registered; ValueError goes to the handler of Exception; the
\* handlers of the other types return at once, and basic_3d has none
process_job_route(job_id) ==
    /\ At(job_id, "get_job")
    /\ LET job == jobs[job_id]
       IN  IF job.type = "text_to_image"
           THEN IF job.provider \in image_gen_providers
                THEN Goto(job_id, "create_task", NoTask)
                ELSE Goto(job_id, "error", NoTask)
           ELSE IF job.type = "text_to_3d"
           THEN IF job.provider \in text_3d_providers
                THEN Goto(job_id, "returned", NoTask)
                ELSE Goto(job_id, "error", NoTask)
           ELSE Goto(job_id, "returned", NoTask)
    /\ UNCHANGED <<jobs, cancels>>
    /\ NoJobEffect

\* _process_text_to_image: await provider.create_task(...), which returns a
\* task in some status or raises
process_create_task(job_id) ==
    /\ At(job_id, "create_task")
    /\ \/ \E task \in TaskReports : Goto(job_id, "external_id", task)
       \/ Goto(job_id, "error", NoTask)
    /\ UNCHANGED <<jobs, cancels>>
    /\ NoJobEffect

\* where _process_text_to_image goes with the task it holds: on polling,
\* to the download, or to _update_job_error
AfterReport(task) ==
    IF ~Final(task) THEN "poll"
    ELSE IF task.status = "completed" THEN "download"
    ELSE "error"

\* await self._update_job_external_id(job_id, task.id)
process_external_id(job_id) ==
    /\ At(job_id, "external_id")
    /\ jobs' = Updated(job_id, [external_job_id |-> "task"])
    /\ Goto(job_id, AfterReport(workers[job_id].task), workers[job_id].task)
    /\ UNCHANGED cancels
    /\ NoJobEffect

\* the poll: await asyncio.sleep(5) and await provider.get_task_status,
\* which reports the task unfinished
process_poll(job_id) ==
    /\ At(job_id, "poll")
    /\ \E task \in TaskReports :
          /\ ~Final(task)
          /\ Goto(job_id, "progress", task)
    /\ UNCHANGED <<jobs, cancels>>
    /\ NoJobEffect

\* the poll in which the provider reports the task finished, or raises
process_poll_final(job_id) ==
    /\ At(job_id, "poll")
    /\ \/ \E task \in TaskReports :
             /\ Final(task)
             /\ Goto(job_id, "progress", task)
       \/ Goto(job_id, "error", NoTask)
    /\ UNCHANGED <<jobs, cancels>>
    /\ NoJobEffect

\* await self._update_job_progress(job_id, task.progress), and the loop
\* condition
process_progress(job_id) ==
    /\ At(job_id, "progress")
    /\ jobs' = Updated(job_id,
                       [progress_percent |-> workers[job_id].task.progress])
    /\ Goto(job_id, AfterReport(workers[job_id].task), workers[job_id].task)
    /\ UNCHANGED cancels
    /\ NoJobEffect

\* await provider.download_result(task) and await self.save_asset(...):
\* the asset is stored, or one of the two raises
process_download(job_id) ==
    /\ At(job_id, "download")
    /\ \/ Goto(job_id, "success", workers[job_id].task)
       \/ Goto(job_id, "error", NoTask)
    /\ UNCHANGED <<jobs, cancels>>
    /\ NoJobEffect

\* _update_job_success
update_job_success(job_id) ==
    /\ At(job_id, "success")
    /\ jobs' = Updated(job_id, [status |-> "completed", asset_id |-> "asset",
                                progress_percent |-> 100])
    /\ Goto(job_id, "returned", workers[job_id].task)
    /\ UNCHANGED cancels
    /\ NoJobEffect

\* _update_job_error, for a failed task and in the handler of Exception
update_job_error(job_id) ==
    /\ At(job_id, "error")
    /\ jobs' = Updated(job_id, [status |-> "failed", error_message |-> "error"])
    /\ Goto(job_id, "returned", workers[job_id].task)
    /\ UNCHANGED cancels
    /\ NoJobEffect

\* cancel_job: await job_manager.get_job(job_id) and the check of the status
\* read; a job that is neither pending nor processing is answered with 400
cancel_job_read(job_id) ==
    /\ job_id \in DOMAIN jobs
    /\ cancels[job_id] = "none"
    /\ cancels' = [cancels EXCEPT ![job_id] =
                      IF jobs[job_id].status \in {"pending", "processing"}
                      THEN "checked" ELSE "refused"]
    /\ UNCHANGED <<jobs, workers>>
    /\ NoJobEffect

\* cancel_job: await database.execute("UPDATE jobs SET status = 'cancelled'")
cancel_job_write(job_id) ==
    /\ job_id \in DOMAIN jobs
    /\ cancels[job_id] = "checked"
    /\ jobs' = Updated(job_id, [status |-> "cancelled"])
    /\ cancels' = [cancels EXCEPT ![job_id] = "cancelled"]
    /\ UNCHANGED workers
    /\ NoJobEffect

\* the answer of cancel_job has gone to the client, who may ask again
cancel_job_answered(job_id) ==
    /\ job_id \in DOMAIN jobs
    /\ cancels[job_id] \in {"cancelled", "refused"}
    /\ cancels' = [cancels EXCEPT ![job_id] = "none"]
    /\ UNCHANGED <<jobs, workers>>
    /\ NoJobEffect

\* a step of the task that processes job_id
process_job(job_id) ==
    \/ process_job_start(job_id)
    \/ process_job_route(job_id)
    \/ process_create_task(job_id)
    \/ process_external_id(job_id)
    \/ process_poll(job_id)
    \/ process_poll_final(job_id)
    \/ process_progress(job_id)
    \/ process_download(job_id)
    \/ update_job_success(job_id)
    \/ update_job_error(job_id)

\* a step of a cancel request for job_id
cancel_job(job_id) ==
    \/ cancel_job_read(job_id)
    \/ cancel_job_write(job_id)
    \/ cancel_job_answered(job_id)

JobNext ==
    \/ create_job
    \/ \E job_id \in 1..MaxJobs : process_job(job_id)
    \/ \E job_id \in 1..MaxJobs : cancel_job(job_id)

JobSpec == Init /\ [][JobNext]_vars

\* the event loop runs every coroutine that can take a step, the task of a
\* job and a cancel request that has read the job, and the provider does
\* not report a task unfinished for ever
JobFairness ==
    \A job_id \in 1..MaxJobs :
        /\ WF_vars(process_job(job_id))
        /\ WF_vars(cancel_job_write(job_id))
        /\ SF_vars(process_poll_final(job_id))

JobFairSpec == JobSpec /\ JobFairness

(***************************************************************************)
(* C1.  For every generator and every parameter set the returned text has  *)
(* as many "facet normal" as "endfacet" occurrences, and that number is    *)
(* metadata["triangles"].                                                  *)
(***************************************************************************)
C1_FacetCounts ==
    Returned =>
        /\ Occurrences(stl_content, <<"facet", "normal">>)
             = Occurrences(stl_content, <<"endfacet">>)
        /\ Occurrences(stl_content, <<"endfacet">>) = metadata.triangles

C1_Witness ==
    /\ Returned
    /\ call.op = "custom_box"
    /\ metadata.triangles > 0
    /\ Occurrences(stl_content, <<"facet", "normal">>) = metadata.triangles

(***************************************************************************)
(* C2.  The text is the header line, then for each triangle in list order  *)
(* its seven-line block (facet normal, outer loop, vertex v1, v2, v3 with  *)
(* x y z in that order, endloop, endfacet), then the footer line: 2 + 7n   *)
(* lines, and every number is printed with exactly 6 digits after the      *)
(* decimal point.                                                          *)
(***************************************************************************)
SixDecimals(numbers) ==
    \A k \in 1..Len(numbers) :
        /\ Len(numbers[k].frac) = 6
        /\ \A d \in 1..6 : numbers[k].frac[d] \in 0..9

IsVertexLine(line, v) ==
    /\ line.indent = 6
    /\ line.words = <<"vertex">>
    /\ Len(line.numbers) = 3
    /\ SixDecimals(line.numbers)
    /\ Vals(line.numbers) = v

IsWordLine(line, indent, words) ==
    line = [indent |-> indent, words |-> words, numbers |-> <<>>]

C2_TextLayout ==
    Returned =>
        /\ Len(stl_content) = 2 + 7 * Len(triangles)
        /\ IsWordLine(stl_content[1], 0, <<"solid", "modelo3d">>)
        /\ IsWordLine(stl_content[Len(stl_content)], 0, <<"endsolid", "modelo3d">>)
        /\ \A i \in 1..Len(triangles) :
            /\ FacetLine(stl_content, i, 1).indent = 2
            /\ FacetLine(stl_content, i, 1).words = <<"facet", "normal">>
            /\ Len(FacetLine(stl_content, i, 1).numbers) = 3
            /\ SixDecimals(FacetLine(stl_content, i, 1).numbers)
            /\ IsWordLine(FacetLine(stl_content, i, 2), 4, <<"outer", "loop">>)
            /\ IsVertexLine(FacetLine(stl_content, i, 3), triangles[i][1])
            /\ IsVertexLine(FacetLine(stl_content, i, 4), triangles[i][2])
            /\ IsVertexLine(FacetLine(stl_content, i, 5), triangles[i][3])
            /\ IsWordLine(FacetLine(stl_content, i, 6), 4, <<"endloop">>)
            /\ IsWordLine(FacetLine(stl_content, i, 7), 2, <<"endfacet">>)

\* a text of several blocks whose vertices are not all whole numbers and
\* not all of one sign
C2_Witness ==
    /\ Returned
    /\ call.op = "cylinder"
    /\ Len(stl_content) = 2 + 7 * 24
    /\ \E i \in 1..Len(triangles) :
        /\ triangles[i][2][1] < 0
        /\ triangles[i][2][1] % Scale # 0
        /\ triangles[i][2][1] % 10 # 0

(***************************************************************************)
(* C3.  For every size > 0 generate_cube yields exactly 12 triangles, two  *)
(* in each of the six faces of the cube from (0,0,0) to (size,size,size),  *)
(* and metadata["triangles"] = 12 whatever the size.                       *)
(***************************************************************************)
\* the triangles of mesh whose three vertices have coordinate axis = value
InPlane(mesh, axis, value) ==
    {k \in 1..Len(mesh) : \A v \in 1..3 : mesh[k][v][axis] = value}

C3_CubeTriangles ==
    (Returned /\ call.op = "cube" /\ call.args[1] > 0) =>
        /\ Len(triangles) = 12
        /\ metadata.triangles = 12
        /\ \A k \in 1..12 : \A v \in 1..3 : \A axis \in 1..3 :
              triangles[k][v][axis] \in {0, call.args[1]}
        /\ \A axis \in 1..3 : \A value \in {0, call.args[1]} :
              Cardinality(InPlane(triangles, axis, value)) = 2

C3_Witness ==
    /\ Returned
    /\ call = [op |-> "cube", args |-> <<10 * Scale>>]
    /\ metadata.triangles = 12
    /\ InPlane(triangles, 3, 10 * Scale) = {3, 4}

(***************************************************************************)
(* C4.  For every radius > 0, height > 0 and integer segments,             *)
(* generate_cylinder yields exactly 4 s triangles, s the clamped segment   *)
(* count: s in the bottom cap, s in the top cap, 2 s on the lateral        *)
(* surface; metadata["triangles"] = 4 s.                                   *)
(***************************************************************************)
Clamp(n, lo, hi) == IF n < lo THEN lo ELSE IF n > hi THEN hi ELSE n

ValidCylinderCall ==
    Returned /\ call.op = "cylinder" /\ call.args[1] > 0 /\ call.args[2] > 0

C4_CylinderTriangles ==
    ValidCylinderCall =>
        LET s == Clamp(call.args[3], 6, 256)
            bottom == InPlane(triangles, 3, 0)
            top == InPlane(triangles, 3, call.args[2])
        IN  /\ Len(triangles) = 4 * s
            /\ metadata.triangles = 4 * s
            /\ Cardinality(bottom) = s
            /\ Cardinality(top) = s
            /\ Cardinality((1..Len(triangles)) \ (bottom \cup top)) = 2 * s

C4_Witness ==
    /\ ValidCylinderCall
    /\ call.args[3] = 20
    /\ metadata.triangles = 80
    /\ Cardinality(InPlane(triangles, 3, 0)) = 20

(***************************************************************************)
(* C5.  For every radius > 0 and integer segments, generate_sphere yields  *)
(* exactly 2 s s triangles, s the clamped segment count, and every vertex  *)
(* index it uses lies inside the (s+1) s vertex list: no IndexError.       *)
(***************************************************************************)
ValidSphereCall == pc = "returned" /\ call.op = "sphere" /\ call.args[1] > 0

C5_SphereTriangles ==
    ValidSphereCall =>
        LET s == Clamp(call.args[2], 6, 128)
        IN  /\ raised = "none"
            /\ Len(triangles) = 2 * s * s
            /\ metadata.triangles = 2 * s * s
            /\ Len(sphere_vertices(call.args[1], s)) = (s + 1) * s
            /\ \A i \in 0..(s - 1), j \in 0..(s - 1) :
                  LET ix == sphere_indices(i, j, s)
                  IN  {ix.current, ix.next_lat, ix.next_lon, ix.next_both}
                          \subseteq 0..((s + 1) * s - 1)

C5_Witness ==
    /\ ValidSphereCall
    /\ raised = "none"
    /\ call.args[2] = 7
    /\ metadata.triangles = 98
    /\ sphere_indices(6, 6, 7).next_lat = 55

(***************************************************************************)
(* C6.  Segment clamping: generate_cylinder(r, h, n) returns the text and  *)
(* metadata of generate_cylinder(r, h, clamp(n, 6, 256)), generate_sphere  *)
(* (r, n) those of generate_sphere(r, clamp(n, 6, 128)); the metadata      *)
(* report the clamped value; the clamp is the identity inside the range    *)
(* and idempotent.                                                         *)
(***************************************************************************)
SameResult(g) ==
    /\ raised = g.raised
    /\ stl_content = g.stl_content
    /\ metadata = g.metadata

C6_SegmentClamping ==
    /\ (pc = "returned" /\ call.op = "cylinder") =>
          LET n == call.args[3]
              c == Clamp(n, 6, 256)
          IN  /\ SameResult(generate_cylinder(call.args[1], call.args[2], c))
              /\ metadata.dimensions.segments = c
              /\ n \in 6..256 => cylinder_segments(n) = n
              /\ cylinder_segments(cylinder_segments(n)) = cylinder_segments(n)
    /\ (pc = "returned" /\ call.op = "sphere") =>
          LET n == call.args[2]
              c == Clamp(n, 6, 128)
          IN  /\ SameResult(generate_sphere(call.args[1], c))
              /\ metadata.dimensions.segments = c
              /\ n \in 6..128 => sphere_segments(n) = n
              /\ sphere_segments(sphere_segments(n)) = sphere_segments(n)

\* a call below the range, one above it
C6_Witness ==
    /\ pc = "returned"
    /\ \/ call = [op |-> "cylinder", args |-> <<5 * Scale, 10 * Scale, 300>>]
          /\ metadata.dimensions.segments = 256
       \/ call = [op |-> "sphere", args |-> <<5 * Scale, 3>>]
          /\ metadata.dimensions.segments = 6

(***************************************************************************)
(* Meshes                                                                  *)
(***************************************************************************)
\* the normal the text gives facet i
WrittenNormal(text, i) == Vals(FacetLine(text, i, 1).numbers)

\* right-hand rule: (v2 - v1) x (v3 - v1)
RightHand(t) == Cross(VSub(t[2], t[1]), VSub(t[3], t[1]))

\* the unit vector along axis, in direction dir (1 or -1)
Axis(axis, dir) == [a \in 1..3 |-> IF a = axis THEN dir * Scale ELSE 0]

\* vector n points along axis in direction dir
PointsAlong(n, axis, dir) ==
    \A a \in 1..3 : IF a = axis THEN n[a] * dir > 0 ELSE n[a] = 0

\* the edges of a triangle, in the order it traverses them
Edges(t) == {<<t[1], t[2]>>, <<t[2], t[3]>>, <<t[3], t[1]>>}

\* number of triangles of mesh that traverse the edge from a to b
Traversals(mesh, a, b) ==
    Cardinality({k \in 1..Len(mesh) : <<a, b>> \in Edges(mesh[k])})

\* every edge of the mesh is in exactly two triangles, which traverse it in
\* opposite directions
ClosedManifold(mesh) ==
    \A k \in 1..Len(mesh) : \A e \in Edges(mesh[k]) :
        /\ e[1] # e[2]
        /\ Traversals(mesh, e[1], e[2]) = 1
        /\ Traversals(mesh, e[2], e[1]) = 1

ValidCubeCall == Returned /\ call.op = "cube" /\ call.args[1] > 0

(***************************************************************************)
(* C7.  For every size > 0 each of the 12 triangles of the cube is wound   *)
(* so that its right-hand-rule normal points out of the cube (-z on the    *)
(* face z = 0, +z on z = size, and so on); the first facet,                *)
(* (0,0,0),(size,0,0),(size,size,0), has normal (0, 0, -1).                *)
(***************************************************************************)
C7_CubeNormalsOutward ==
    ValidCubeCall =>
        /\ triangles[1] = << <<0, 0, 0>>, <<call.args[1], 0, 0>>,
                             <<call.args[1], call.args[1], 0>> >>
        /\ WrittenNormal(stl_content, 1) = <<0, 0, -Scale>>
        /\ \A k \in 1..Len(triangles) : \A axis \in 1..3 :
            /\ k \in InPlane(triangles, axis, 0) =>
                  /\ PointsAlong(RightHand(triangles[k]), axis, -1)
                  /\ WrittenNormal(stl_content, k) = Axis(axis, -1)
            /\ k \in InPlane(triangles, axis, call.args[1]) =>
                  /\ PointsAlong(RightHand(triangles[k]), axis, 1)
                  /\ WrittenNormal(stl_content, k) = Axis(axis, 1)

(***************************************************************************)
(* C8.  The cube mesh is a closed 2-manifold: every edge that occurs in    *)
(* the 12 triangles occurs in exactly two of them, and the two traverse it *)
(* in opposite directions.                                                 *)
(***************************************************************************)
C8_CubeClosedManifold == ValidCubeCall => ClosedManifold(triangles)

\* the diagonal of the base is traversed once each way
C8_Witness ==
    /\ ValidCubeCall
    /\ Len(triangles) = 12
    /\ Traversals(triangles, <<0, 0, 0>>, <<call.args[1], call.args[1], 0>>) = 1
    /\ Traversals(triangles, <<call.args[1], call.args[1], 0>>, <<0, 0, 0>>) = 1

(***************************************************************************)
(* C9.  The cylinder mesh is a closed 2-manifold for every clamped segment *)
(* count: every edge (spoke, ring edge of a cap, vertical edge, lateral    *)
(* diagonal) occurs in exactly two triangles, which traverse it in         *)
(* opposite directions, the wrap-around pair (s-1, 0) included.            *)
(***************************************************************************)
C9_CylinderClosedManifold == ValidCylinderCall => ClosedManifold(triangles)

(***************************************************************************)
(* C10.  Every bottom-cap triangle (centre, ring[i+1], ring[i]) of the     *)
(* cylinder has its normal in -z and every top-cap triangle (centre,       *)
(* ring[i], ring[i+1]) in +z, the ring being sampled counter-clockwise.    *)
(***************************************************************************)
\* p, q follow one another counter-clockwise around the z axis
CounterClockwise(p, q) == FMul(p[1], q[2]) - FMul(p[2], q[1]) > 0

C10_CylinderCapNormals ==
    ValidCylinderCall =>
        LET s == Clamp(call.args[3], 6, 256)
            h == call.args[2]
        IN  \A k \in 1..s :
              /\ k \in InPlane(triangles, 3, 0)
              /\ triangles[k][1] = <<0, 0, 0>>
              /\ CounterClockwise(triangles[k][3], triangles[k][2])
              /\ PointsAlong(RightHand(triangles[k]), 3, -1)
              /\ WrittenNormal(stl_content, k) = <<0, 0, -Scale>>
              /\ s + k \in InPlane(triangles, 3, h)
              /\ triangles[s + k][1] = <<0, 0, h>>
              /\ CounterClockwise(triangles[s + k][2], triangles[s + k][3])
              /\ PointsAlong(RightHand(triangles[s + k]), 3, 1)
              /\ WrittenNormal(stl_content, s + k) = <<0, 0, Scale>>

\* the finest ring: 256 segments
C10_Witness ==
    /\ ValidCylinderCall
    /\ Len(triangles) = 4 * 256
    /\ WrittenNormal(stl_content, 256) = <<0, 0, -Scale>>
    /\ WrittenNormal(stl_content, 512) = <<0, 0, Scale>>

(***************************************************************************)
(* C11.  Both lateral triangles of every ring-index pair (i, i+1 mod s) of *)
(* the cylinder, (bottom[i], top[i], bottom[i+1]) and (bottom[i+1],        *)
(* top[i], top[i+1]), are wound outward: their right-hand-rule normal      *)
(* points away from the cylinder axis.                                     *)
(***************************************************************************)
\* n . (v1 + v2 + v3) in the x, y plane: positive exactly when n points away
\* from the z axis at the centroid of t
RadialDot(n, t) ==
    FMul(n[1], t[1][1] + t[2][1] + t[3][1])
    + FMul(n[2], t[1][2] + t[2][2] + t[3][2])

C11_CylinderLateralOutward ==
    ValidCylinderCall =>
        LET s == Clamp(call.args[3], 6, 256)
            bottom == [i \in 0..(s - 1) |-> triangles[i + 1][3]]
            top == [i \in 0..(s - 1) |-> triangles[s + i + 1][2]]
        IN  \A i \in 0..(s - 1) :
              LET t1 == triangles[2 * s + 2 * i + 1]
                  t2 == triangles[2 * s + 2 * i + 2]
              IN  /\ t1 = <<bottom[i], top[i], bottom[(i + 1) % s]>>
                  /\ t2 = <<bottom[(i + 1) % s], top[i], top[(i + 1) % s]>>
                  /\ RadialDot(RightHand(t1), t1) > 0
                  /\ RadialDot(RightHand(t2), t2) > 0
                  /\ RadialDot(WrittenNormal(stl_content, 2 * s + 2 * i + 1), t1) > 0
                  /\ RadialDot(WrittenNormal(stl_content, 2 * s + 2 * i + 2), t2) > 0

(***************************************************************************)
(* Hollow box                                                              *)
(***************************************************************************)
\* length, width, height > 0 and 0 < t < min(length, width) / 2
BoxCallInDomain ==
    /\ Returned
    /\ call.op = "custom_box"
    /\ call.args[1] > 0
    /\ call.args[2] > 0
    /\ call.args[3] > 0
    /\ call.args[4] > 0
    /\ 2 * call.args[4] < Min2(call.args[1], call.args[2])

\* ... and the cavity floor below the rim: t < height
ValidBoxCall == BoxCallInDomain /\ call.args[4] < call.args[3]

\* the four vertices of vertical corner c (0 nearest the origin, then
\* counter-clockwise seen from above): outer bottom and top, inner bottom and
\* top
BoxCorner(c) ==
    LET l == call.args[1]
        w == call.args[2]
        h == call.args[3]
        t == call.args[4]
        x == IF c \in {1, 2} THEN l ELSE 0
        y == IF c \in {2, 3} THEN w ELSE 0
        xi == IF c \in {1, 2} THEN l - t ELSE t
        yi == IF c \in {2, 3} THEN w - t ELSE t
    IN  [outer |-> {<<x, y, 0>>, <<x, y, h>>},
         inner |-> {<<xi, yi, t>>, <<xi, yi, h>>}]

CornerVertices(c) == BoxCorner(c).outer \cup BoxCorner(c).inner

VerticesOf(t) == {t[1], t[2], t[3]}

\* the triangles that join the two shells: some vertex on the outer box and
\* some vertex on the inner one
Stitching(mesh) ==
    {k \in 1..Len(mesh) :
        /\ \E c \in 0..3 : VerticesOf(mesh[k]) \cap BoxCorner(c).outer # {}
        /\ \E c \in 0..3 : VerticesOf(mesh[k]) \cap BoxCorner(c).inner # {}}

(***************************************************************************)
(* C12.  generate_custom_box yields a constant number of triangles,        *)
(* whatever length, width, height and wall_thickness: 10 outer, 10 inner   *)
(* and the stitching triangles; and no triangle is a top cap: none has all *)
(* three vertices in the plane z = height.                                 *)
(***************************************************************************)
C12_BoxTriangleCount ==
    BoxCallInDomain =>
        /\ Len(triangles) = 24
        /\ metadata.triangles = 24
        /\ InPlane(triangles, 3, call.args[3]) = {}

(***************************************************************************)
(* C13.  With 0 < t < min(length, width) / 2 and t < height, each of the   *)
(* 10 outer triangles of the hollow box has its right-hand-rule normal     *)
(* pointing away from the box (-z bottom, -y front, +x right, +y back,     *)
(* -x left), and each of the 10 inner triangles is the vertex-order        *)
(* reversal of the corresponding outer triangle, with its normal pointing  *)
(* into the cavity (+z on the cavity floor, toward the cavity centre on    *)
(* the inner walls).                                                       *)
(***************************************************************************)
\* the outward direction of the face that outer triangle k lies in
BoxFaceAxis(k) == <<3, 3, 2, 2, 1, 1, 2, 2, 1, 1>>[k]
BoxFaceDir(k) == <<-1, -1, -1, -1, 1, 1, 1, 1, -1, -1>>[k]

\* the vertex of the inner box that corresponds to vertex v of the outer one
Inset(v) ==
    LET l == call.args[1]
        w == call.args[2]
        t == call.args[4]
    IN  << IF v[1] = 0 THEN t ELSE l - t,
           IF v[2] = 0 THEN t ELSE w - t,
           IF v[3] = 0 THEN t ELSE v[3] >>

C13_BoxNormals ==
    ValidBoxCall =>
        \A k \in 1..10 :
            /\ PointsAlong(RightHand(triangles[k]), BoxFaceAxis(k), BoxFaceDir(k))
            /\ WrittenNormal(stl_content, k) = Axis(BoxFaceAxis(k), BoxFaceDir(k))
            /\ triangles[10 + k] = << Inset(triangles[k][1]), Inset(triangles[k][3]),
                                      Inset(triangles[k][2]) >>
            /\ PointsAlong(RightHand(triangles[10 + k]), BoxFaceAxis(k), -BoxFaceDir(k))
            /\ WrittenNormal(stl_content, 10 + k) = Axis(BoxFaceAxis(k), -BoxFaceDir(k))

(***************************************************************************)
(* C14.  The wall-stitching triangles of the hollow box connect the outer  *)
(* and the inner shell at exactly one vertical corner seam, the one        *)
(* nearest the origin (ext[0], ext[4], int[0], int[4]): no stitching       *)
(* triangle has a vertex of any of the other three corners.                *)
(***************************************************************************)
C14_StitchOneSeam ==
    ValidBoxCall =>
        /\ Stitching(triangles) # {}
        /\ \A k \in Stitching(triangles) :
              VerticesOf(triangles[k]) \subseteq CornerVertices(0)

(***************************************************************************)
(* C14, amended.  The stitching triangles connect the two shells at        *)
(* exactly the two vertical corner seams of the front wall (y = 0): two    *)
(* triangles on the vertices of corner 0 (ext[0], ext[4], int[0], int[4])  *)
(* and two on those of corner 1 (ext[1], ext[5], int[1], int[5]); no       *)
(* stitching triangle has a vertex of the two back corners.                *)
(***************************************************************************)
C14_StitchFrontSeams ==
    ValidBoxCall =>
        /\ Stitching(triangles) = 21..24
        /\ \A k \in {21, 22} : VerticesOf(triangles[k]) \subseteq CornerVertices(0)
        /\ \A k \in {23, 24} : VerticesOf(triangles[k]) \subseteq CornerVertices(1)
        /\ \A k \in Stitching(triangles) :
              VerticesOf(triangles[k]) \cap (CornerVertices(2) \cup CornerVertices(3)) = {}

C14_Witness ==
    /\ ValidBoxCall
    /\ call.args = <<20 * Scale, 15 * Scale, 10 * Scale, 2 * Scale>>
    /\ triangles[21] = << <<0, 0, 0>>, <<2 * Scale, 2 * Scale, 2 * Scale>>,
                          <<0, 0, 10 * Scale>> >>
    /\ triangles[24] = << <<18 * Scale, 2 * Scale, 2 * Scale>>,
                          <<20 * Scale, 0, 10 * Scale>>,
                          <<18 * Scale, 2 * Scale, 10 * Scale>> >>

(***************************************************************************)
(* C15.  In the hollow-box mesh the stitched seam at the origin corner is  *)
(* watertight: every edge of the stitching triangles at that corner is     *)
(* shared by exactly two triangles of the mesh, which traverse it in       *)
(* opposite directions; the seams at the other three corners are open:     *)
(* they have an edge that belongs to fewer than two triangles.             *)
(***************************************************************************)
\* number of triangles of mesh with the edge between a and b
EdgeCount(mesh, a, b) == Traversals(mesh, a, b) + Traversals(mesh, b, a)

\* the seam of corner c has an edge, between the shells or along the rim,
\* that fewer than two triangles share
OpenSeam(mesh, c) ==
    \E a \in BoxCorner(c).outer, b \in BoxCorner(c).inner : EdgeCount(mesh, a, b) < 2

C15_BoxSeams ==
    ValidBoxCall =>
        /\ \A k \in Stitching(triangles) :
              VerticesOf(triangles[k]) \subseteq CornerVertices(0) =>
                  \A e \in Edges(triangles[k]) :
                      /\ Traversals(triangles, e[1], e[2]) = 1
                      /\ Traversals(triangles, e[2], e[1]) = 1
        /\ \A c \in 1..3 : OpenSeam(triangles, c)

(***************************************************************************)
(* C16.  calculate_normal(v1, v2, v3) never raises.  For collinear or      *)
(* coincident vertices it returns the zero vector, which the serializer    *)
(* writes as the facet normal 0.000000 0.000000 0.000000.  For             *)
(* non-collinear vertices it returns the cross product (v2-v1) x (v3-v1)   *)
(* scaled to unit length; for an axis-aligned triangle exactly one         *)
(* component is +1 or -1 and the others are 0.                             *)
(***************************************************************************)
\* (v2 - v1) x (v3 - v1) counted in lattice units: small integers, exact
CellCross(v1, v2, v3) ==
    LET a == [i \in 1..3 |-> (v2[i] - v1[i]) \div LatticeUnit]
        b == [i \in 1..3 |-> (v3[i] - v1[i]) \div LatticeUnit]
    IN  << a[2] * b[3] - a[3] * b[2],
           a[3] * b[1] - a[1] * b[3],
           a[1] * b[2] - a[2] * b[1] >>

\* floating tolerance: four decimals
UnitTolerance == HalfScale \div 10

\* n has length 1
UnitLength(n) ==
    Abs(FMul(n[1], n[1]) + FMul(n[2], n[2]) + FMul(n[3], n[3]) - Scale)
        <= UnitTolerance

\* n is parallel to c and points the same way
SameDirection(n, c) ==
    /\ \A i \in 1..3 : n[i] * Sgn(c[i]) >= 0
    /\ \A i \in 1..3 : c[i] = 0 => n[i] = 0
    /\ \A i \in 1..3, j \in 1..3 :
          Abs(n[i] * c[j] - n[j] * c[i]) <= UnitTolerance * MaxAbs(c)

SerializerReturned == pc = "returned" /\ call.op = "write_triangle_to_buffer"

Dimensions(c) ==
    IF c.op = "cube" THEN {c.args[1]}
    ELSE IF c.op = "cylinder" THEN {c.args[1], c.args[2]}
    ELSE IF c.op = "sphere" THEN {c.args[1]}
    ELSE {c.args[1], c.args[2], c.args[3], c.args[4]}

C18_NonPositiveRefused ==
    (pc = "returned" /\ \E d \in Dimensions(call) : d <= 0) =>
        /\ raised # "none"
        /\ triangles = <<>>
        /\ stl_content = <<>>
(***************************************************************************)
(* Requests to POST /api/generate and their responses.                     *)
(***************************************************************************)
Responded == pc = "responded"

\* the kinds that have a generator in services/generator.py
Primitives == {"cube", "cylinder", "sphere", "custom_box"}

\* the request succeeded and the metadata name the requested kind
Succeeded ==
    /\ response.status = 200
    /\ response.metadata.model_type = request.model_type

(***************************************************************************)
(* C19.  The generate entry point accepts exactly the kinds cube,          *)
(* cylinder, sphere and hollow_box: a request for each of these four with  *)
(* valid parameters succeeds and the returned metadata model_type equals   *)
(* the requested kind.                                                     *)
(***************************************************************************)
C19_AcceptedKinds ==
    Responded =>
        /\ response.status # 422
              <=> request.model_type \in {"cube", "cylinder", "sphere", "hollow_box"}
        /\ ( /\ request.model_type \in {"cube", "cylinder", "sphere", "hollow_box"}
             /\ ValidParams(request.model_type, request.params) )
              => Succeeded

(***************************************************************************)
(* C19 as the code has it: the request model accepts exactly cube,         *)
(* cylinder, sphere, custom_box and ai_model and refuses every other kind, *)
(* hollow_box among them, with status 422; a request for cube, cylinder,   *)
(* sphere or custom_box with valid parameters succeeds and the returned    *)
(* metadata model_type equals the requested kind.                          *)
(***************************************************************************)
C19_AcceptedModelTypes ==
    Responded =>
        /\ response.status # 422
              <=> request.model_type
                    \in {"cube", "cylinder", "sphere", "custom_box", "ai_model"}
        /\ ( /\ request.model_type \in Primitives
             /\ ValidParams(request.model_type, request.params) )
              => Succeeded

C19_Witness ==
    /\ Responded
    /\ request.model_type = "custom_box"
    /\ ValidParams(request.model_type, request.params)
    /\ response.status = 200
    /\ response.metadata.model_type = "custom_box"
    /\ response.metadata.triangles = 24

(***************************************************************************)
(* C20.  A request for a kind outside the primitives is rejected to the    *)
(* caller and never answered with the mesh of a primitive: it does not     *)
(* succeed, and validate_and_generate returns no primitive's mesh for it,  *)
(* also when the ai_model path fails.                                      *)
(***************************************************************************)
\* the text is a mesh written by generate_stl_content, which only the
\* generators of the primitives call
PrimitiveMesh(text) ==
    /\ Len(text) > 0
    /\ text[1] = create_stl_header
    /\ Occurrences(text, <<"facet", "normal">>) > 0

C20_NoDefaultShape ==
    (Responded /\ request.model_type \notin Primitives) =>
        /\ response.status # 200
        /\ ~PrimitiveMesh(stl_content)
        /\ triangles = <<>>

(***************************************************************************)
(* C17.  Generation is deterministic and stateless: two calls of the same  *)
(* generator with identical parameters return the same text and equal      *)
(* metadata (kind, dimensions, triangle count), whatever other calls ran   *)
(* before or between them and whenever they ran, and a generation call     *)
(* changes nothing outside its return value: not the storage index, not    *)
(* the index file, not the exported files.                                 *)
(***************************************************************************)
\* the metadata are of a call of the same generator with the same parameters
SameCall(m1, m2) ==
    /\ m1.model_type = m2.model_type
    /\ m1.dimensions = m2.dimensions

\* the stored file f is what the call that has just returned gave again
StoredAgain(f) ==
    /\ disk[f] = stl_content
    /\ index[f].triangles = metadata.triangles

SameCallSameResult ==
    /\ \A f, g \in DOMAIN index :
          SameCall(index[f], index[g]) =>
              /\ disk[f] = disk[g]
              /\ index[f].triangles = index[g].triangles
              /\ index[f].size_bytes = index[g].size_bytes
    /\ Returned =>
          \A f \in DOMAIN index : SameCall(index[f], metadata) => StoredAgain(f)

GenerationStep == pc = "called" /\ pc' = "returned"

RefusalStatus ==
    Responded =>
        /\ request.model_type \notin ModelTypes => response.status = 422
        /\ ( /\ request.model_type \in ModelTypes
             /\ ~ValidParams(request.model_type, request.params) )
              => response.status = 400
        /\ response.status \in {400, 422} => stl_content = <<>>

RefusalStep == pc = "idle" /\ pc' = "responded" /\ response'.status \in {400, 422}

C21_RefusalLeavesStorage ==
    /\ []RefusalStatus
    /\ [][RefusalStep => UNCHANGED <<index, index_keys, index_file, disk>>]_vars

C21_Witness ==
    /\ Responded
    /\ request.model_type = "custom_box"
    /\ ~ValidParams(request.model_type, request.params)
    /\ response.status = 400
    /\ DOMAIN index # {}
    /\ DOMAIN disk = DOMAIN index

(***************************************************************************)
(* C30.  For every box request that CustomBoxParams accepts the cavity of  *)
(* generate_custom_box lies strictly inside the outer shell: t < length -  *)
(* t, t < width - t, and the cavity floor z = t is strictly below the rim  *)
(* z = height.                                                             *)
(***************************************************************************)
AcceptedBox ==
    /\ Responded
    /\ request.model_type = "custom_box"
    /\ CustomBoxParams(request.params).valid
    /\ response.status = 200

\* the inner base corner nearest the origin and the one opposite to it
CavityNear ==
    box_int_vertices(request.params.length, request.params.width,
                     request.params.height, request.params.wall_thickness)[1]

CavityFar ==
    box_int_vertices(request.params.length, request.params.width,
                     request.params.height, request.params.wall_thickness)[3]

CavityInPlan ==
    /\ CavityNear[1] < CavityFar[1]
    /\ CavityNear[2] < CavityFar[2]

C30_CavityInside ==
    AcceptedBox =>
        /\ CavityInPlan
        /\ CavityNear[3] < request.params.height

(***************************************************************************)
(* C24.  In generate_sphere with effective segment count s the zero-area   *)
(* triangles are exactly those touching a pole ring: in band 0 the first   *)
(* triangle of each quad has two vertices at the south pole, in band s - 1 *)
(* the second triangle has two vertices at the north pole, 2 * s           *)
(* degenerate triangles in all; every other triangle has three distinct    *)
(* vertices that are not collinear.                                        *)
(***************************************************************************)
\* triangle k of the list: its band and whether it is the first of its quad
TriangleBand(k, s) == (k - 1) \div (2 * s)
FirstOfQuad(k) == k % 2 = 1

AtSouthPole(k, s) == TriangleBand(k, s) = 0 /\ FirstOfQuad(k)
AtNorthPole(k, s) == TriangleBand(k, s) = s - 1 /\ ~FirstOfQuad(k)

ZeroArea(t) == calculate_normal(t[1], t[2], t[3]) = <<0, 0, 0>>

DistinctVertices(t) == t[1] # t[2] /\ t[2] # t[3] /\ t[1] # t[3]

Validated == pc = "returned" /\ call.op = "validate_and_generate"

RequestedSegments ==
    IF Has(call.args[2], "segments") THEN call.args[2].segments ELSE DefaultSegments

C23_ClampIsIdentity ==
    Validated =>
        LET n == RequestedSegments
            cylinder == call.args[1] = "cylinder"
        IN  /\ raised = "none" <=> n \in 6..(IF cylinder THEN 256 ELSE 128)
            /\ raised = "none" =>
                  /\ metadata.dimensions.segments = n
                  /\ IF cylinder
                     THEN cylinder_segments(n) = n /\ Len(triangles) = 4 * n
                     ELSE sphere_segments(n) = n /\ Len(triangles) = 2 * n * n

C23_Witness ==
    /\ Validated
    /\ call.args[1] = "cylinder"
    /\ RequestedSegments = 256
    /\ raised = "none"
    /\ metadata.dimensions.segments = 256
    /\ Len(triangles) = 1024

(***************************************************************************)
(* C28.  Every save_file call stores its content under a filename that is  *)
(* not yet in the index: no earlier file and no earlier index entry is     *)
(* overwritten, and the index has one entry more after the save than       *)
(* before, also when the same model is saved twice within one second.      *)
(***************************************************************************)
\* a step of POST /api/generate in which save_file has indexed the model
SaveStep ==
    /\ pc = "idle"
    /\ pc' = "responded"
    /\ "model_type" \in DOMAIN request'
    /\ response'.status = 200

C28_SavesNeverCollide ==
    [][SaveStep =>
          /\ response'.metadata.filename \notin DOMAIN index
          /\ \A f \in DOMAIN index : f \in DOMAIN index' /\ index'[f] = index[f]
          /\ \A f \in DOMAIN disk : f \in DOMAIN disk' /\ disk'[f] = disk[f]
          /\ Cardinality(DOMAIN index') = Cardinality(DOMAIN index) + 1]_vars

(***************************************************************************)
(* C27.  GET /api/files succeeds in every storage state, also when indexed *)
(* files have been removed from the disk: the response lists the metadata  *)
(* of exactly the index entries whose file exists, newest first, and       *)
(* afterwards the index has no entry whose file is missing.                *)
(***************************************************************************)
\* a step of GET /api/files
ListStep ==
    /\ pc = "idle"
    /\ pc' = "responded"
    /\ "route" \in DOMAIN request'
    /\ request'.route = "files"

\* the index entries whose file exists
Existing == {index[f] : f \in DOMAIN index \cap DOMAIN disk}

C27_ListFilesCompletes ==
    [][ListStep =>
          /\ response'.status = 200
          /\ {response'.files[k] : k \in 1..Len(response'.files)} = Existing
          /\ response'.total_count = Cardinality(Existing)
          /\ \A j, k \in 1..Len(response'.files) :
                j < k => ~Before(response'.files[j].created_at,
                                 response'.files[k].created_at)
          /\ \A f \in DOMAIN index' : f \in DOMAIN disk']_vars

(***************************************************************************)
(* C29.  When create_zip returns None because a requested file is missing, *)
(* no archive remains in the export directory and the index is as before;  *)
(* an archive that was created is deleted once it has been streamed.       *)
(***************************************************************************)
\* a step of POST /api/zip in which create_zip returned None
ZipFailedStep ==
    /\ pc = "idle"
    /\ pc' = "responded"
    /\ "route" \in DOMAIN request'
    /\ request'.route = "zip"
    /\ response'.status = 400

\* the step in which the archive has been streamed to its end
StreamedStep == pc = "streaming" /\ pc' = "responded"

C29_FailedZipLeavesNoTrace ==
    [][/\ ZipFailedStep =>
             /\ zip_filename(clock) \notin DOMAIN archives'
             /\ UNCHANGED <<index, index_keys, index_file>>
       /\ StreamedStep => response.zip_path \notin DOMAIN archives']_vars

(***************************************************************************)
(* C22.  POST /api/zip answers 200 only when every requested filename is   *)
(* an indexed file that exists on disk; an empty list is answered with     *)
(* 422, and a list with a filename that is not stored with 400.            *)
(***************************************************************************)
\* POST /api/zip has been answered; the index and the STL files are those
\* of the request
ZipAnswered ==
    /\ pc \in {"responded", "streaming"}
    /\ "route" \in DOMAIN request
    /\ request.route = "zip"

Stored(filename) == filename \in DOMAIN index /\ filename \in DOMAIN disk

C22_ZipOnlyStoredFiles ==
    ZipAnswered =>
        LET filenames == request.filenames
            all_stored == \A k \in 1..Len(filenames) : Stored(filenames[k])
        IN  /\ response.status = 200 => Len(filenames) >= 1 /\ all_stored
            /\ Len(filenames) = 0 => response.status = 422
            /\ Len(filenames) >= 1 /\ ~all_stored => response.status = 400

\* a request that names a file of the export directory that is not indexed
\* has been refused
C22_Witness ==
    /\ ZipAnswered
    /\ response.status = 400
    /\ \E k \in 1..Len(request.filenames) :
          /\ request.filenames[k] \in DOMAIN disk
          /\ request.filenames[k] \notin DOMAIN index

(***************************************************************************)
(* C25.  The job statuses completed, failed and cancelled are terminal:    *)
(* under every interleaving of the task that processes a job with cancel   *)
(* requests, a job in one of them keeps its status in every step.          *)
(***************************************************************************)
C25_TerminalStatusesStay ==
    [][\A job_id \in DOMAIN jobs :
          jobs[job_id].status \in Terminal
              => jobs'[job_id].status = jobs[job_id].status]_vars

(***************************************************************************)
(* C26.  Every job that is created eventually has a terminal status,       *)
(* whatever its type, when the task that processes it is scheduled fairly  *)
(* and the provider eventually reports the task finished.                  *)
(***************************************************************************)
C26_EveryJobTerminates ==
    \A job_id \in 1..MaxJobs :
        (job_id \in DOMAIN jobs)
            ~> (job_id \in DOMAIN jobs /\ jobs[job_id].status \in Terminal)

====
